---- MODULE Spec2Model ----
(***************************************************************************)
(* Verification model of claude-tooling-index: the catalog store           *)
(* (database.py), the toggle engine (toggles.py) and the scan              *)
(* orchestrators (scanner.py, codex_scanner.py, multi_scanner.py).         *)
(***************************************************************************)
EXTENDS Integers, Sequences, FiniteSets, TLC

(***************************************************************************)
(* Bounds of the model.                                                    *)
(***************************************************************************)
MaxScanLen == 2        \* records in one scan result
MaxEvents == 3         \* records upserted in one behaviour of SpecStore
MaxLegacyRows == 2     \* rows of an old-generation components table
MaxUpserts == 2        \* upserts of the unchanged source in SpecRescan
MaxToggles == 2        \* toggle calls in one behaviour of SpecToggle
MaxProjects == 1       \* project scopes in ~/.claude.json
MaxTomlTables == 2     \* table headers in config.toml

VARIABLES
    \* ---- catalog store (database.py) ----
    schema,               \* generation of the components table on disk
    components,           \* rows of the components table
    installation_events,  \* rows of installation_events, in insertion order
    conn,                 \* "closed" | "open" | "failed" (the constructor raised)
    store_hist,           \* history: how the store was opened and what it was fed
    source,               \* SpecRescan: the scan result of the unchanged source
    upserts,              \* SpecRescan: number of upserts of source so far
    \* ---- toggle engine (toggles.py) ----
    entry,                \* the component record handed to toggle_component
    disk,                 \* artifacts and config documents on disk
    toggle_hist,          \* history: first entry, first disk, disk before the last
                          \* call, and the calls made so far
    \* ---- scan orchestrators (scanner.py, codex_scanner.py, multi_scanner.py) ----
    request,              \* platform asked for and what the scanners will do
    run,                  \* 1: scan_all(parallel=False), 2: scan_all(parallel=True), 3: both returned
    done,                 \* tasks of the current call that have finished
    errs,                 \* the error lists the tasks of the current call append to
    results,              \* the ScanResult each finished call returned
    \* ---- catalog store and its connection (database.py, analytics.py) ----
    dbfile,               \* the committed content of the store file
    dbview,               \* what the connection sees: dbfile plus its open transaction
    dbconn,               \* the connection: state and its foreign_keys pragma
    artifacts,            \* the bin directory that is scanned into the store
    db_hist,              \* history: the first file, file and view before the last call, calls
    \* ---- redaction of MCP configuration (scanners/mcps.py, scanners/codex_mcps.py) ----
    redaction,            \* the configuration handed to a redaction function and its output
    \* ---- usage of one component (database.py get_component_usage) ----
    usage,                \* the invocations recorded for the component and the result returned
    \* ---- Codex MCP scanner (scanners/codex_mcps.py) ----
    mcp_scan              \* config.toml as the scanner finds it, and what scan() did

storeVars == <<schema, components, installation_events, conn, store_hist, source, upserts>>

toggleVars == <<entry, disk, toggle_hist>>

scanVars == <<request, run, done, errs, results>>

catVars == <<dbfile, dbview, dbconn, artifacts, db_hist>>

redVars == <<redaction>>

usageVars == <<usage>>

mcpScanVars == <<mcp_scan>>

vars == <<storeVars, toggleVars, scanVars, catVars, redVars, usageVars, mcpScanVars>>

(***************************************************************************)
(* Catalog store: records, rows and the schema.                            *)
(***************************************************************************)
\* Identities that scanners emit; each differs from the first in one column.
Identities ==
    { <<"claude", "x", "skill">>, <<"codex", "x", "skill">>,
      <<"claude", "y", "skill">>, <<"claude", "x", "mcp">> }

\* ComponentMetadata as update_components reads it: identity and status.
Records ==
    { [platform |-> i[1], name |-> i[2], type |-> i[3], status |-> s] :
        i \in Identities, s \in {"active", "disabled"} }

\* ScanResult.all_components: one flat ordered list of records.
ScanResults == UNION { [1..n -> Records] : n \in 0..MaxScanLen }

Key(c) == <<c.platform, c.name, c.type>>

\* The UNIQUE clause dropped from the table definition.
TableUniqueDropped(rows) == TRUE

\* UNIQUE(platform, name, type) of the components table (id is the primary key).
TableUnique(rows) ==
    \A r1, r2 \in rows :
        (r1.platform = r2.platform /\ r1.name = r2.name /\ r1.type = r2.type)
            => r1.id = r2.id

\* AUTOINCREMENT: one more than the largest id ever used (rows are never deleted).
NextId(rows) ==
    IF rows = {} THEN 1
    ELSE 1 + (CHOOSE m \in {r.id : r \in rows} : \A r \in rows : r.id <= m)

\* SELECT id, first_seen FROM components WHERE platform = ? AND name = ? AND type = ?
existing(rows, c) ==
    { r \in rows : r.platform = c.platform /\ r.name = c.name /\ r.type = c.type }

\* cursor.fetchone(): the first matching row (lowest rowid).
fetchone(found) == CHOOSE r \in found : \A q \in found : r.id <= q.id

\* One iteration of the loop of update_components over db = [rows, events, raised].
UpsertRecord(db, c) ==
    IF db.raised THEN db
    ELSE
        LET found == existing(db.rows, c) IN
        IF found # {} THEN
            LET old == fetchone(found) IN
            [ rows   |-> (db.rows \ {old}) \cup {[old EXCEPT !.status = c.status]},
              events |-> Append(db.events,
                                [component_id |-> old.id, event_type |-> "updated"]),
              raised |-> FALSE ]
        ELSE
            LET new == [ id |-> NextId(db.rows), platform |-> c.platform,
                         name |-> c.name, type |-> c.type, status |-> c.status ] IN
            IF TableUnique(db.rows \cup {new}) THEN
                [ rows   |-> db.rows \cup {new},
                  events |-> Append(db.events,
                                    [component_id |-> new.id, event_type |-> "installed"]),
                  raised |-> FALSE ]
            ELSE [db EXCEPT !.raised = TRUE]   \* sqlite3.IntegrityError

RECURSIVE UpsertAll(_, _)
UpsertAll(db, scan) ==
    IF scan = <<>> THEN db
    ELSE UpsertAll(UpsertRecord(db, Head(scan)), Tail(scan))

\* update_components(scan_result) on the open connection.
update_components(rows, events, scan) ==
    UpsertAll([rows |-> rows, events |-> events, raised |-> FALSE], scan)

\* INSERT INTO components (...) SELECT id, 'claude', name, type, ... FROM components_old
MigrateRow(r) ==
    [ id |-> r.id, platform |-> "claude", name |-> r.name, type |-> r.type,
      status |-> r.status ]

(***************************************************************************)
(* Old-generation store files: a components table without the platform     *)
(* column.  The file is an input: the open path checks only the column     *)
(* list, so the table may or may not carry the old UNIQUE(name, type).     *)
(***************************************************************************)
LegacyKeys == { <<"x", "skill">>, <<"y", "skill">> }

LegacyRowsOf(s) ==
    { [id |-> i, name |-> s[i][1], type |-> s[i][2], status |-> "active"] :
        i \in 1..Len(s) }

LegacyEventsOf(s) ==
    [ i \in 1..Len(s) |-> [component_id |-> i, event_type |-> "installed"] ]

LegacyTables == UNION { [1..n -> LegacyKeys] : n \in 0..MaxLegacyRows }

HasDuplicate(scan) ==
    \E i, j \in 1..Len(scan) : i < j /\ Key(scan[i]) = Key(scan[j])

StoreFileInit ==
    \/ /\ schema = "none"
       /\ components = {}
       /\ installation_events = <<>>
    \/ \E s \in LegacyTables :
           /\ schema = "old"
           /\ components = LegacyRowsOf(s)
           /\ installation_events = LegacyEventsOf(s)

StoreIdle ==
    /\ schema = "none"
    /\ components = {}
    /\ installation_events = <<>>
    /\ conn = "closed"
    /\ store_hist = [migrated |-> FALSE, dup |-> FALSE, n |-> 0]
    /\ source = <<>>
    /\ upserts = 0

(***************************************************************************)
(* Store actions.                                                          *)
(***************************************************************************)
\* ToolingDatabase.__init__ -> _init_schema -> _ensure_components_schema
\* (-> _migrate_components_add_platform for an old-generation table).
Open ==
    /\ conn = "closed"
    /\ IF schema = "none" THEN
           /\ schema' = "new"
           /\ conn' = "open"
           /\ UNCHANGED <<components, installation_events, store_hist>>
       ELSE IF schema = "old" THEN
           LET moved == { MigrateRow(r) : r \in components } IN
           IF TableUnique(moved) THEN
               /\ schema' = "new"
               /\ components' = moved
               /\ conn' = "open"
               /\ store_hist' = [store_hist EXCEPT !.migrated = TRUE]
               /\ UNCHANGED installation_events
           ELSE   \* IntegrityError: ROLLBACK and re-raise
               /\ conn' = "failed"
               /\ UNCHANGED <<schema, components, installation_events, store_hist>>
       ELSE
           /\ conn' = "open"
           /\ UNCHANGED <<schema, components, installation_events, store_hist>>
    /\ UNCHANGED <<source, upserts, toggleVars, scanVars, catVars, redVars, usageVars, mcpScanVars>>

\* update_components with any scan result.
Upsert ==
    /\ conn = "open"
    /\ \E n \in 0..MaxScanLen :
         /\ store_hist.n + n <= MaxEvents
         /\ \E scan \in [1..n -> Records] :
              LET db == update_components(components, installation_events, scan) IN
              /\ components' = db.rows
              /\ installation_events' = db.events
              /\ store_hist' = [store_hist EXCEPT !.n = @ + n,
                                                  !.dup = @ \/ HasDuplicate(scan)]
    /\ UNCHANGED <<schema, conn, source, upserts, toggleVars, scanVars, catVars, redVars, usageVars, mcpScanVars>>

\* update_components with the result of scanning the unchanged source again.
UpsertSource ==
    /\ conn = "open"
    /\ upserts < MaxUpserts
    /\ LET db == update_components(components, installation_events, source) IN
       /\ components' = db.rows
       /\ installation_events' = db.events
    /\ upserts' = upserts + 1
    /\ UNCHANGED <<schema, conn, store_hist, source, toggleVars, scanVars, catVars, redVars, usageVars, mcpScanVars>>

(***************************************************************************)
(* Toggle engine: what is on disk.                                         *)
(***************************************************************************)
\* Paths are sequences of components; a file system is a set of
\* <<path, content>> pairs, a directory having content "dir".
RootOf(t) == IF t = "skill" THEN "skills" ELSE "commands"

ArtifactOf(t) == IF t = "skill" THEN "s1" ELSE "c1.md"

ActivePath(t) == <<RootOf(t), ArtifactOf(t)>>

DisabledDir(t) == <<RootOf(t), ".disabled">>

DisabledPath(t) == <<RootOf(t), ".disabled", ArtifactOf(t)>>

PathName(p) == p[Len(p)]

Parent(p) == SubSeq(p, 1, Len(p) - 1)

Exists(fs, p) == \E f \in fs : f[1] = p

\* The artifact may be in the scanner's root, in its .disabled sibling, in both
\* or in neither.
FsStates(t) ==
    { {<< <<RootOf(t)>>, "dir" >>} \cup a \cup d :
        a \in { {}, {<<ActivePath(t), "A">>} },
        d \in { {}, {<<DisabledDir(t), "dir">>},
                {<<DisabledDir(t), "dir">>, <<DisabledPath(t), "D">>} } }

DefaultFs == { << <<"skills">>, "dir" >>, <<ActivePath("skill"), "A">> }

\* A JSON object member mcpServers / mcpServersDisabled: absent, or a dict
\* given as its set of <<key, value>> pairs.
AbsentColl == [present |-> FALSE, items |-> {}]

DictOf(items) == [present |-> TRUE, items |-> items]

EmptyScope == [mcpServers |-> AbsentColl, mcpServersDisabled |-> AbsentColl]

InitScopes(name) ==
    { [mcpServers |-> e, mcpServersDisabled |-> d] :
        e \in {AbsentColl, DictOf({<<name, "va">>})},
        d \in {AbsentColl, DictOf({<<name, "vd">>})} }

\* A JSON config file: missing, not parseable, or an object with a top-level
\* scope and the scopes under "projects".  Its layout is "dumps" when its text
\* is what json.dumps(data, indent=2) + "\n" gives for its data and "other"
\* for any other text of the same data.
AbsentDoc == [state |-> "absent", top |-> EmptyScope, projects |-> <<>>, layout |-> "other"]

InvalidDoc == [state |-> "invalid", top |-> EmptyScope, projects |-> <<>>, layout |-> "other"]

\* json.dumps(data, indent=2, sort_keys=False) + "\n"
write_json(top, projects) ==
    [state |-> "valid", top |-> top, projects |-> projects, layout |-> "dumps"]

JsonDocs(name, maxProj) ==
    {AbsentDoc, InvalidDoc} \cup
    { [state |-> "valid", top |-> s, projects |-> ps, layout |-> l] :
        l \in {"dumps", "other"},
        s \in InitScopes(name),
        ps \in UNION { [1..n -> InitScopes(name)] : n \in 0..maxProj } }

\* config.toml as its table-header lines [table.key]; the key is kept as the
\* tokens of its text, so "m1", the quoted "m1" and the sub-table m1.env differ.
TomlKeys(name) == { <<name>>, <<"\"", name, "\"">>, <<name, ".", "env">> }

TomlHeaders(name) ==
    { [table |-> tb, key |-> k] :
        tb \in {"mcp_servers", "mcp_servers_disabled"}, k \in TomlKeys(name) }

\* newline is the line ending of the file's text.
AbsentToml == [state |-> "absent", lines |-> <<>>, newline |-> "lf"]

TomlDocs(name) ==
    {AbsentToml} \cup
    { [state |-> "present", lines |-> l, newline |-> nl] :
        nl \in {"lf", "crlf"},
        l \in UNION { [1..n -> TomlHeaders(name)] : n \in 0..MaxTomlTables } }

(***************************************************************************)
(* Toggle engine: the entries handed to toggle_component.                  *)
(***************************************************************************)
Statuses == {"active", "disabled", "error"}

FileEntries ==
    { [ type |-> t, platform |-> "claude", status |-> s, name |-> ArtifactOf(t),
        origin |-> IF fp THEN "plugin" ELSE "in-house", from_plugin |-> fp,
        install_path |-> p ] :
        t \in {"skill", "command"}, s \in Statuses, fp \in BOOLEAN,
        p \in {ActivePath("skill"), DisabledPath("skill"),
               ActivePath("command"), DisabledPath("command")} }

\* Records the scanners build: the path lies under the type's root and only a
\* command can come from a plugin.
ScannedFileEntries ==
    { e \in FileEntries :
        /\ e.install_path \in {ActivePath(e.type), DisabledPath(e.type)}
        /\ e.from_plugin => e.type = "command" }

McpEntries ==
    { [ type |-> "mcp", platform |-> pf, status |-> s, name |-> n, origin |-> o,
        from_plugin |-> FALSE, install_path |-> <<"config">> ] :
        pf \in {"claude", "codex", "gemini"}, s \in Statuses,
        n \in {"m1", "claude-in-chrome"}, o \in {"in-house", "plugin"} }

ScannedMcpEntries ==
    { e \in McpEntries :
        /\ e.platform = "codex" => (e.name = "m1" /\ e.origin = "in-house")
        /\ e.platform = "gemini" => (e.name = "m1" /\ e.origin = "in-house"
                                      /\ e.status = "active") }

PluginEntries ==
    { [ type |-> "plugin", platform |-> "claude", status |-> s, name |-> "p1",
        origin |-> "official", from_plugin |-> FALSE,
        install_path |-> <<"plugins", "p1">> ] : s \in {"active", "disabled"} }

Entries == ScannedFileEntries \cup ScannedMcpEntries \cup PluginEntries

\* The disk states paired with an entry: the artifact kind the entry is
\* backed by varies, the rest of the disk is fixed.
DisksFor(e) ==
    IF e.type \in {"skill", "command"} THEN
        { [fs |-> f, claude_json |-> AbsentDoc, mcp_json |-> AbsentDoc,
           config_toml |-> AbsentToml] : f \in FsStates(e.type) }
    ELSE IF e.type = "mcp" /\ e.platform = "claude" THEN
        { [fs |-> DefaultFs, claude_json |-> c, mcp_json |-> m,
           config_toml |-> AbsentToml] :
            c \in JsonDocs(e.name, MaxProjects), m \in JsonDocs(e.name, 0) }
    ELSE IF e.type = "mcp" THEN
        { [fs |-> DefaultFs, claude_json |-> AbsentDoc, mcp_json |-> AbsentDoc,
           config_toml |-> tm] : tm \in TomlDocs(e.name) }
    ELSE
        { [fs |-> DefaultFs, claude_json |-> AbsentDoc, mcp_json |-> AbsentDoc,
           config_toml |-> AbsentToml] }

(***************************************************************************)
(* Toggle engine: the operations of toggles.py.                            *)
(***************************************************************************)
\* _toggle_file_or_dir without the tests of the direction: it moves the artifact
\* to the other location whatever the caller asked for.
toggle_file_or_dir_guessing(fs, path, enable) ==
    IF ~Exists(fs, path) THEN [raised |-> TRUE, fs |-> fs]
    ELSE
        LET inDisabled == PathName(Parent(path)) = ".disabled"
            dst == IF inDisabled THEN Append(Parent(Parent(path)), PathName(path))
                   ELSE Parent(path) \o <<".disabled", PathName(path)>>
        IN
        IF Exists(fs, dst) THEN [raised |-> TRUE, fs |-> fs]
        ELSE
            LET src == CHOOSE f \in fs : f[1] = path
            IN [raised |-> FALSE,
                fs |-> (fs \ {src}) \cup {<<Parent(dst), "dir">>, <<dst, src[2]>>}]

\* _toggle_file_or_dir without the test of the destination: the rename replaces it.
toggle_file_or_dir_overwriting(fs, path, enable) ==
    IF ~Exists(fs, path) THEN [raised |-> TRUE, fs |-> fs]
    ELSE
        LET inDisabled == PathName(Parent(path)) = ".disabled"
            dst == IF inDisabled THEN Append(Parent(Parent(path)), PathName(path))
                   ELSE Parent(path) \o <<".disabled", PathName(path)>>
        IN
        IF enable /\ ~inDisabled THEN [raised |-> TRUE, fs |-> fs]
        ELSE IF ~enable /\ inDisabled THEN [raised |-> TRUE, fs |-> fs]
        ELSE
            LET src == CHOOSE f \in fs : f[1] = path
            IN [raised |-> FALSE,
                fs |-> ({ f \in fs : f[1] \notin {path, dst} })
                          \cup {<<Parent(dst), "dir">>, <<dst, src[2]>>}]

\* _toggle_file_or_dir(path, enable): [raised, fs].
toggle_file_or_dir(fs, path, enable) ==
    IF ~Exists(fs, path) THEN [raised |-> TRUE, fs |-> fs]
    ELSE
        LET name == PathName(path)
            parent == Parent(path)
            inDisabled == PathName(parent) = ".disabled"
            dst == IF inDisabled THEN Append(Parent(parent), name)
                   ELSE parent \o <<".disabled", name>>
        IN
        IF enable /\ ~inDisabled THEN [raised |-> TRUE, fs |-> fs]
        ELSE IF ~enable /\ inDisabled THEN [raised |-> TRUE, fs |-> fs]
        ELSE IF Exists(fs, dst) THEN [raised |-> TRUE, fs |-> fs]
        ELSE
            LET made == IF Exists(fs, Parent(dst)) THEN fs
                        ELSE fs \cup {<<Parent(dst), "dir">>}      \* mkdir
                src == CHOOSE f \in made : f[1] = path
            IN [raised |-> FALSE, fs |-> (made \ {src}) \cup {<<dst, src[2]>>}]

DictKeys(coll) == { kv[1] : kv \in coll.items }

DictGet(coll, k) == (CHOOSE kv \in coll.items : kv[1] = k)[2]

DictPop(coll, k) == { kv \in coll.items : kv[1] # k }

DictPut(coll, k, v) == DictPop(coll, k) \cup {<<k, v>>}

\* _move_mcp_entry_in_dict(container, mcp_name, enable): [changed, scope].
move_mcp_entry_in_dict(container, mcp_name, enable) ==
    LET enabled == container.mcpServers
        disabled == container.mcpServersDisabled
    IN
    IF enable THEN
        IF mcp_name \notin DictKeys(disabled) THEN
            [changed |-> FALSE, scope |-> container]
        ELSE
            [ changed |-> TRUE,
              scope |-> [ mcpServers |->
                              DictOf(DictPut(enabled, mcp_name, DictGet(disabled, mcp_name))),
                          mcpServersDisabled |-> DictOf(DictPop(disabled, mcp_name)) ] ]
    ELSE
        IF mcp_name \notin DictKeys(enabled) THEN
            [changed |-> FALSE, scope |-> container]
        ELSE
            [ changed |-> TRUE,
              scope |-> [ mcpServers |-> DictOf(DictPop(enabled, mcp_name)),
                          mcpServersDisabled |->
                              DictOf(DictPut(disabled, mcp_name, DictGet(enabled, mcp_name))) ] ]

\* _toggle_claude_mcp_json(path, mcp_name, enable): [raised, changed, doc].
toggle_claude_mcp_json(doc, mcp_name, enable) ==
    IF doc.state = "absent" THEN [raised |-> FALSE, changed |-> FALSE, doc |-> doc]
    ELSE IF doc.state = "invalid" THEN [raised |-> TRUE, changed |-> FALSE, doc |-> doc]
    ELSE
        LET top == move_mcp_entry_in_dict(doc.top, mcp_name, enable)
            moved == [ i \in 1..Len(doc.projects) |->
                         move_mcp_entry_in_dict(doc.projects[i], mcp_name, enable) ]
            changed == top.changed \/ \E i \in 1..Len(moved) : moved[i].changed
        IN
        [ raised |-> FALSE, changed |-> changed,
          doc |-> IF changed
                  THEN write_json(top.scope, [i \in 1..Len(moved) |-> moved[i].scope])
                  ELSE doc ]

\* _toggle_claude_mcp_configs: ~/.claude.json first, then ~/.claude/mcp.json.
\* [raised, changed, disk]; a file is written before the next one is read.
toggle_claude_mcp_configs(d, mcp_name, enable) ==
    LET first == toggle_claude_mcp_json(d.claude_json, mcp_name, enable) IN
    IF first.raised THEN [raised |-> TRUE, changed |-> FALSE, disk |-> d]
    ELSE
        LET d1 == [d EXCEPT !.claude_json = first.doc]
            second == toggle_claude_mcp_json(d.mcp_json, mcp_name, enable)
        IN
        IF second.raised THEN [raised |-> TRUE, changed |-> first.changed, disk |-> d1]
        ELSE [ raised |-> FALSE, changed |-> first.changed \/ second.changed,
               disk |-> [d1 EXCEPT !.mcp_json = second.doc] ]

\* normalize_key(raw): strip one pair of surrounding double quotes.
normalize_key(raw) ==
    IF Len(raw) >= 2 /\ raw[1] = "\"" /\ raw[Len(raw)] = "\""
    THEN SubSeq(raw, 2, Len(raw) - 1)
    ELSE raw

\* The header lines whose normalised key is the MCP's name.
toml_matches(lines, mcp_name) ==
    { i \in 1..Len(lines) : normalize_key(lines[i].key) = <<mcp_name>> }

\* _toggle_codex_mcp without the tests "already enabled" / "already disabled".
toggle_codex_mcp_unguarded(toml, mcp_name, enable) ==
    IF toml.state = "absent" THEN [raised |-> TRUE, toml |-> toml]
    ELSE
        LET matches == toml_matches(toml.lines, mcp_name) IN
        IF Cardinality(matches) # 1 THEN [raised |-> TRUE, toml |-> toml]
        ELSE
            LET idx == CHOOSE i \in matches : TRUE IN
            [ raised |-> FALSE,
              toml |-> [toml EXCEPT !.lines[idx].table =
                            IF enable THEN "mcp_servers" ELSE "mcp_servers_disabled",
                                    !.newline = "lf"] ]

\* _toggle_codex_mcp(config_toml_path, mcp_name, enable): [raised, toml].
toggle_codex_mcp(toml, mcp_name, enable) ==
    IF toml.state = "absent" THEN [raised |-> TRUE, toml |-> toml]
    ELSE
        LET matches == toml_matches(toml.lines, mcp_name) IN
        IF Cardinality(matches) # 1 THEN [raised |-> TRUE, toml |-> toml]
        ELSE
            LET idx == CHOOSE i \in matches : TRUE
                table == toml.lines[idx].table
            IN
            IF enable /\ table = "mcp_servers" THEN [raised |-> TRUE, toml |-> toml]
            ELSE IF ~enable /\ table = "mcp_servers_disabled"
                 THEN [raised |-> TRUE, toml |-> toml]
            ELSE
                [ raised |-> FALSE,
                  \* read_text() gives every line ending as "\n"; write_text() keeps it.
                  toml |-> [toml EXCEPT !.lines[idx].table =
                                IF enable THEN "mcp_servers" ELSE "mcp_servers_disabled",
                                        !.newline = "lf"] ]

NeverPluginCommand(e) == FALSE

\* comp_type == "command" and getattr(component, "from_plugin", None)
IsPluginCommand(e) == e.type = "command" /\ e.from_plugin

IsPluginMcp(e) == e.origin = "plugin"

IsBuiltinMcp(e) == e.name = "claude-in-chrome"

NotSupported(d) == [outcome |-> "ToggleNotSupported", new_status |-> "none", disk |-> d]

Failed(d) == [outcome |-> "ToggleError", new_status |-> "none", disk |-> d]

Toggled(enable, d) ==
    [outcome |-> "ok", new_status |-> IF enable THEN "active" ELSE "disabled", disk |-> d]

\* toggle_component(component): [outcome, new_status, disk].
toggle_component(e, d) ==
    IF e.status \notin {"active", "disabled"} THEN NotSupported(d)
    ELSE
        LET enable == e.status = "disabled" IN
        IF e.type \in {"skill", "command", "hook", "binary"} THEN
            IF IsPluginCommand(e) THEN NotSupported(d)
            ELSE
                LET r == toggle_file_or_dir(d.fs, e.install_path, enable) IN
                IF r.raised THEN Failed([d EXCEPT !.fs = r.fs])
                ELSE Toggled(enable, [d EXCEPT !.fs = r.fs])
        ELSE IF e.type = "mcp" THEN
            IF e.platform = "codex" THEN
                LET r == toggle_codex_mcp(d.config_toml, e.name, enable) IN
                IF r.raised THEN Failed([d EXCEPT !.config_toml = r.toml])
                ELSE Toggled(enable, [d EXCEPT !.config_toml = r.toml])
            ELSE IF e.platform = "claude" THEN
                IF IsPluginMcp(e) THEN NotSupported(d)
                ELSE IF IsBuiltinMcp(e) THEN NotSupported(d)
                ELSE
                    LET r == toggle_claude_mcp_configs(d, e.name, enable) IN
                    IF r.raised THEN Failed(r.disk)
                    ELSE IF ~r.changed THEN Failed(r.disk)
                    ELSE Toggled(enable, r.disk)
            ELSE NotSupported(d)
        ELSE NotSupported(d)

\* Where _toggle_file_or_dir moved the artifact to.
MovedPath(path) ==
    IF PathName(Parent(path)) = ".disabled"
    THEN Append(Parent(Parent(path)), PathName(path))
    ELSE Parent(path) \o <<".disabled", PathName(path)>>

FileBacked(e) == e.type \in {"skill", "command", "hook", "binary"}

(***************************************************************************)
(* Toggle actions.                                                         *)
(***************************************************************************)
Calls == SelectSeq(toggle_hist.calls, LAMBDA c : c.op = "toggle")

LastCall == toggle_hist.calls[Len(toggle_hist.calls)]

\* toggle_component(entry).
Toggle ==
    /\ Len(Calls) < MaxToggles
    /\ LET r == toggle_component(entry, disk) IN
       /\ disk' = r.disk
       /\ toggle_hist' =
            [toggle_hist EXCEPT
                !.pre = disk,
                !.calls = Append(@, [ op |-> "toggle", outcome |-> r.outcome,
                                      new_status |-> r.new_status ])]
    /\ UNCHANGED <<entry, storeVars, scanVars, catVars, redVars, usageVars, mcpScanVars>>

\* The caller builds the record of the toggled component: the status the
\* toggle returned and, for a file or directory, the place it was moved to.
Refresh ==
    /\ toggle_hist.calls # <<>>
    /\ LastCall.op = "toggle"
    /\ LastCall.outcome = "ok"
    /\ entry' = [entry EXCEPT
                    !.status = LastCall.new_status,
                    !.install_path = IF FileBacked(entry) THEN MovedPath(@) ELSE @]
    /\ toggle_hist' =
         [toggle_hist EXCEPT
             !.calls = Append(@, [ op |-> "refresh", outcome |-> "none",
                                   new_status |-> "none" ])]
    /\ UNCHANGED <<disk, storeVars, scanVars, catVars, redVars, usageVars, mcpScanVars>>

ToggleIdle ==
    /\ entry = CHOOSE e \in PluginEntries : TRUE
    /\ disk = CHOOSE d \in DisksFor(entry) : TRUE
    /\ toggle_hist = [entry0 |-> entry, disk0 |-> disk, pre |-> disk, calls |-> <<>>]

ToggleInit ==
    /\ entry \in Entries
    /\ disk \in DisksFor(entry)
    /\ toggle_hist = [entry0 |-> entry, disk0 |-> disk, pre |-> disk, calls |-> <<>>]

(***************************************************************************)
(* Catalog store with its connection: the committed file, what the open    *)
(* connection sees (the file plus the writes of its open transaction),     *)
(* the attribute columns, the search index and the invocations table.      *)
(***************************************************************************)
MaxCalls == 4

MaxUpserted == 3

NULL == "NULL"

\* What a YAML front matter date parses to: a value json.dumps rejects.
DateValue == "date"

\* The attribute bags of the records: sets of <<field, value>>.  A bag
\* without a field stands for a record class that has no such field.
AttrBags ==
    { { <<"version", "1.0">>, <<"description", "d1">>, <<"author", "a1">> },
      { <<"description", "d2">> },
      { <<"version", DateValue>>, <<"description", "d1">> },
      {} }

HasAttr(bag, field) == \E kv \in bag : kv[1] = field

Attr(bag, field, default) ==
    IF HasAttr(bag, field) THEN (CHOOSE kv \in bag : kv[1] = field)[2] ELSE default

\* json.dumps raises TypeError on a value that is not JSON.
Serializable(dict) == \A kv \in dict : kv[2] # DateValue

\* Component records handed to update_components: a binary in either
\* location, a binary whose version is a date, and a plugin of either origin.
CatRecords ==
    { [ platform |-> "claude", name |-> "b1", type |-> "binary",
        origin |-> "in-house", status |-> s,
        install_path |-> IF s = "disabled" THEN "D" ELSE "A", attrs |-> b ] :
        s \in {"active", "disabled"},
        b \in { bag \in AttrBags : HasAttr(bag, "author") \/ bag = {} } }
    \cup
    { [ platform |-> "claude", name |-> "b1", type |-> "binary",
        origin |-> "in-house", status |-> "active", install_path |-> "A",
        attrs |-> b ] : b \in { bag \in AttrBags : ~Serializable(bag) } }
    \cup
    { [ platform |-> "claude", name |-> "p1", type |-> "plugin",
        origin |-> o, status |-> "active", install_path |-> "A", attrs |-> b ] :
        o \in {"in-house", "official"},
        b \in { bag \in AttrBags : bag = {<<"description", "d2">>} } }

\* metadata_dict of update_components: the base fields and every attribute
\* the record has.
metadata_dict(c) ==
    { <<"name", c.name>>, <<"type", c.type>>, <<"platform", c.platform>>,
      <<"origin", c.origin>>, <<"status", c.status>>,
      <<"install_path", c.install_path>> } \cup c.attrs

\* json.dumps(metadata_dict): the text of a JSON object.
json_dumps(dict) == [kind |-> "object", items |-> dict]

\* The description _rebuild_components_fts reads out of metadata_json;
\* "raise" when the text parses to something that has no .get.
fts_description(metadata_json) ==
    IF metadata_json.kind \in {"null", "invalid"} THEN ""
    ELSE IF metadata_json.kind = "array" THEN "raise"
    ELSE LET d == Attr(metadata_json.items, "description", NULL) IN
         IF d = NULL THEN "" ELSE d

fts_row(row) ==
    [ rowid |-> row.id, name |-> row.name,
      description |-> fts_description(row.metadata_json),
      keywords |-> <<row.platform, row.type>> ]

\* INSERT OR REPLACE INTO components_fts (rowid, ...)
fts_replace(fts, new) == { f \in fts : f.rowid # new.rowid } \cup {new}

\* The store of a fresh file after _init_schema created every table.
EmptyContent ==
    [ gen |-> "new", components |-> {}, events |-> <<>>, fts |-> {},
      has_fts |-> TRUE, invocations |-> <<>>, leftover |-> FALSE, old |-> {},
      fk |-> "components" ]

NoFile == [EmptyContent EXCEPT !.gen = "none", !.has_fts = FALSE, !.fk = "none"]

\* INSERT INTO installation_events / invocations with foreign_keys=ON fails
\* when the referenced parent table does not exist.
ForeignKeyFails(content, cn) == cn.foreign_keys /\ content.fk = "components_old"

\* No update at all: the row of the first record of an identity stays.
updated_row_first_wins(old, c) == old

\* A merging update: a column keeps its old value where the record has none.
updated_row_merging(old, c) ==
    [ old EXCEPT !.origin = c.origin, !.status = c.status,
                 !.version = Attr(c.attrs, "version", old.version),
                 !.install_path = c.install_path,
                 !.metadata_json =
                     json_dumps(metadata_dict(c) \cup
                                { kv \in old.metadata_json.items :
                                    ~HasAttr(metadata_dict(c), kv[1]) }) ]

\* UPDATE components SET origin, status, version, install_path,
\* metadata_json WHERE id = ?
updated_row(old, c) ==
    [ old EXCEPT !.origin = c.origin, !.status = c.status,
                 !.version = Attr(c.attrs, "version", NULL),
                 !.install_path = c.install_path,
                 !.metadata_json = json_dumps(metadata_dict(c)) ]

\* One iteration of the loop of update_components; s = [content, raised].
upsert_component(s, c, cn) ==
    IF s.raised THEN s
    ELSE IF ~Serializable(metadata_dict(c)) THEN [s EXCEPT !.raised = TRUE]
    ELSE
        LET db     == s.content
            meta   == json_dumps(metadata_dict(c))
            found  == existing(db.components, c)
            old    == fetchone(found)
            row    == IF found # {}
                      THEN updated_row(old, c)
                      ELSE [ id |-> NextId(db.components), platform |-> c.platform,
                             name |-> c.name, type |-> c.type, origin |-> c.origin,
                             status |-> c.status,
                             version |-> Attr(c.attrs, "version", NULL),
                             install_path |-> c.install_path,
                             metadata_json |-> meta ]
            rows   == IF found # {} THEN (db.components \ {old}) \cup {row}
                      ELSE db.components \cup {row}
            event  == [ component_id |-> row.id,
                        event_type |-> IF found # {} THEN "updated" ELSE "installed" ]
            desc   == Attr(metadata_dict(c), "description", "")
        IN
        IF ~TableUnique(rows) THEN [s EXCEPT !.raised = TRUE]
        ELSE IF ForeignKeyFails(db, cn)
        THEN [ content |-> [db EXCEPT !.components = rows], raised |-> TRUE ]
        ELSE [ content |-> [ db EXCEPT
                   !.components = rows,
                   !.events = Append(@, event),
                   !.fts = fts_replace(@, [ rowid |-> row.id, name |-> c.name,
                                            description |-> desc,
                                            keywords |-> <<c.platform, c.type>> ]) ],
               raised |-> FALSE ]

RECURSIVE upsert_all(_, _, _)
upsert_all(s, scan, cn) ==
    IF scan = <<>> THEN s
    ELSE upsert_all(upsert_component(s, Head(scan), cn), Tail(scan), cn)

\* Scan results of at most n records.
CatScans(n) == UNION { [1..k -> CatRecords] : k \in 0..n }

(***************************************************************************)
(* Opening a store file: _init_schema and the platform migration.          *)
(***************************************************************************)
\* metadata_json texts found in old-generation files.
LegacyMetadata ==
    { [kind |-> "object", items |-> {<<"description", "d1">>}],
      [kind |-> "object", items |-> {}],
      [kind |-> "null", items |-> {}],
      [kind |-> "invalid", items |-> {}],
      [kind |-> "array", items |-> {}] }

\* Rows of an old-generation components table: no platform column.
LegacyRow(i, key, meta) ==
    [ id |-> i, name |-> key[1], type |-> key[2], origin |-> "in-house",
      status |-> "active", version |-> "1.0", install_path |-> "A",
      metadata_json |-> meta ]

LegacyCatKeys == { <<"b1", "binary">>, <<"p1", "plugin">> }

LegacyTablesOf(n) ==
    { { LegacyRow(i, keys[i], metas[i]) : i \in 1..n } :
        keys \in [1..n -> LegacyCatKeys], metas \in [1..n -> LegacyMetadata] }

\* Old-generation files.  The other tables exist unless the file holds the
\* components table alone, a table named components_old may be left over,
\* and a search index may exist already.
LegacyFiles ==
    { [ gen |-> "old", components |-> rows,
        events |-> IF others THEN [i \in 1..Cardinality(rows) |->
                                     [component_id |-> i, event_type |-> "installed"]]
                   ELSE <<>>,
        fts |-> {}, has_fts |-> idx,
        invocations |-> IF others /\ rows # {} THEN <<[component_id |-> 1]>> ELSE <<>>,
        leftover |-> lo, old |-> {},
        fk |-> IF others THEN "components" ELSE "none" ] :
        rows \in UNION { LegacyTablesOf(n) : n \in 0..MaxLegacyRows },
        others \in BOOLEAN, idx \in BOOLEAN, lo \in BOOLEAN }

\* The version column left out of the column list of the copy.
migrate_row_without_version(r) ==
    [ id |-> r.id, platform |-> "claude", name |-> r.name, type |-> r.type,
      origin |-> r.origin, status |-> r.status, version |-> NULL,
      install_path |-> r.install_path, metadata_json |-> r.metadata_json ]

\* INSERT INTO components (id, platform, ...) SELECT id, 'claude', ... FROM components_old
migrate_row(r) ==
    [ id |-> r.id, platform |-> "claude", name |-> r.name, type |-> r.type,
      origin |-> r.origin, status |-> r.status, version |-> r.version,
      install_path |-> r.install_path, metadata_json |-> r.metadata_json ]

\* The rebuild loop: rows in id order, stopping at the first row whose
\* metadata has no .get; m = [fts, raised].
RECURSIVE rebuild_from(_, _, _)
rebuild_from(rows, i, m) ==
    IF m.raised \/ \A r \in rows : r.id < i THEN m
    ELSE IF \E r \in rows : r.id = i THEN
        LET row == CHOOSE r \in rows : r.id = i IN
        IF fts_description(row.metadata_json) = "raise"
        THEN [m EXCEPT !.raised = TRUE]
        ELSE rebuild_from(rows, i + 1, [m EXCEPT !.fts = fts_replace(@, fts_row(row))])
    ELSE rebuild_from(rows, i + 1, m)

\* _rebuild_components_fts: DELETE FROM components_fts, then the loop.
rebuild_components_fts(rows) == rebuild_from(rows, 1, [fts |-> {}, raised |-> FALSE])

\* ALTER TABLE components RENAME TO components_old.  SQLite from 3.26 on
\* also rewrites the REFERENCES clauses of the other tables
\* (legacy_alter_table off); older libraries leave them alone.
rename_to_old(c, rewrites) ==
    [ c EXCEPT !.gen = "renamed", !.old = c.components, !.components = {},
               !.leftover = TRUE,
               !.fk = IF rewrites /\ c.fk = "components" THEN "components_old" ELSE c.fk ]

\* The statements between BEGIN and COMMIT, on the transaction's working
\* copy w; the result is the copy where the first failing statement left it.
migrate_components_add_platform(c, rewrites) ==
    IF c.leftover THEN [content |-> c, raised |-> TRUE]
    ELSE
        LET w1 == rename_to_old(c, rewrites)
            w2 == [w1 EXCEPT !.has_fts = FALSE, !.fts = {}]
            w3 == [w2 EXCEPT !.gen = "new"]
            moved == { migrate_row(r) : r \in w3.old }
        IN
        IF ~TableUnique(moved)
        THEN [content |-> w3, raised |-> TRUE]
        ELSE
            LET w4 == [w3 EXCEPT !.components = moved]
                w5 == [w4 EXCEPT !.old = {}, !.leftover = FALSE]
                m  == rebuild_components_fts(w5.components)
                w6 == [w5 EXCEPT !.has_fts = TRUE, !.fts = m.fts]
            IN [content |-> w6, raised |-> m.raised]

\* The ROLLBACK statement dropped from the except branch.
rollback_missing(file, work) == work

\* cursor.execute("ROLLBACK"): the file is what it was before BEGIN.
rollback(file, work) == file

\* The rest of _init_schema creating the installation_events table anew.
init_schema_recreating(c) ==
    [ c EXCEPT !.fk = IF c.fk = "none" THEN "components" ELSE c.fk, !.events = <<>> ]

\* The rest of _init_schema: CREATE TABLE IF NOT EXISTS for the other
\* tables, the search index if it is missing, and the commit.
init_schema_rest(c) ==
    [ c EXCEPT !.fk = IF c.fk = "none" THEN "components" ELSE c.fk ]

(***************************************************************************)
(* Catalog actions.                                                        *)
(***************************************************************************)
Closed == [state |-> "closed", foreign_keys |-> FALSE]

Opened == [state |-> "open", foreign_keys |-> FALSE]

CatCall(op, outcome, arg) == [op |-> op, outcome |-> outcome, arg |-> arg]

\* History kept for the properties: the file and the connection's view
\* before the last call, and the calls made.
Logged(call) ==
    db_hist' = [ db_hist EXCEPT !.pre_file = dbfile, !.pre_view = dbview,
                                !.calls = Append(@, [op |-> call.op, outcome |-> call.outcome]),
                                !.last_arg = call.arg,
                                !.upserted = @ + IF call.op = "update_components"
                                                 THEN Len(call.arg) ELSE 0 ]

CallsLeft == Len(db_hist.calls) < MaxCalls

OpenDb ==
    /\ dbconn.state = "closed"
    /\ CallsLeft
    /\ IF dbfile.gen = "none" THEN
           /\ dbfile' = [EmptyContent EXCEPT !.leftover = dbfile.leftover]
           /\ dbview' = dbfile'
           /\ dbconn' = Opened
           /\ Logged(CatCall("open", "ok", <<"created">>))
       ELSE IF dbfile.gen = "old" THEN
           \E rewrites \in BOOLEAN :
               LET m == migrate_components_add_platform(dbfile, rewrites) IN
               IF m.raised THEN
                   /\ dbfile' = rollback(dbfile, m.content)
                   /\ dbview' = dbfile'
                   /\ dbconn' = [state |-> "failed", foreign_keys |-> TRUE]
                   /\ Logged(CatCall("open", "raised", <<"migration">>))
               ELSE
                   /\ dbfile' = init_schema_rest(m.content)
                   /\ dbview' = dbfile'
                   /\ dbconn' = [state |-> "open", foreign_keys |-> TRUE]
                   /\ Logged(CatCall("open", "ok", <<"migration">>))
       ELSE
           /\ dbconn' = Opened
           /\ UNCHANGED <<dbfile, dbview>>
           /\ Logged(CatCall("open", "ok", <<"current">>))
    /\ UNCHANGED <<artifacts, storeVars, toggleVars, scanVars, redVars, usageVars, mcpScanVars>>

\* update_components(scan_result): the loop, then self.conn.commit().  When
\* an iteration raises, the exception leaves the method before the commit
\* and the writes made so far stay in the connection's open transaction.
UpdateComponents ==
    /\ dbconn.state = "open"
    /\ CallsLeft
    /\ \E scan \in CatScans(MaxUpserted - db_hist.upserted) :
         LET s == upsert_all([content |-> dbview, raised |-> FALSE], scan, dbconn) IN
         /\ dbview' = s.content
         /\ dbfile' = IF s.raised THEN dbfile ELSE s.content
         /\ Logged(CatCall("update_components",
                           IF s.raised THEN "raised" ELSE "ok", scan))
    /\ UNCHANGED <<dbconn, artifacts, storeVars, toggleVars, scanVars, redVars, usageVars, mcpScanVars>>

\* AnalyticsTracker.track_invocation: "type:name", or a bare skill name.
parse_component(component) ==
    IF Len(component) >= 2
    THEN [type |-> component[1], name |-> component[2]]
    ELSE [type |-> "skill", name |-> component[1]]

TrackArgs ==
    { <<<<"binary", "b1">>, "claude">>, <<<<"plugin", "p1">>, "claude">>,
      <<<<"ghost">>, "claude">>, <<<<"binary", "b1">>, "codex">> }

\* The lookup dropped: the row is written for whatever id the query gave.
track_invocation_unchecked(view, cn, who) ==
    [ content |-> [view EXCEPT !.invocations = Append(@, [component_id |-> 0])],
      outcome |-> "ok", committed |-> TRUE ]

\* track_invocation: look the entry up; without one return before any
\* write and before the commit.
track_invocation(view, cn, who) ==
    LET found == existing(view.components, who) IN
    IF found = {}
    THEN [content |-> view, outcome |-> "ok", committed |-> FALSE]
    ELSE IF ForeignKeyFails(view, cn)
    THEN [content |-> view, outcome |-> "raised", committed |-> FALSE]
    ELSE [ content |-> [ view EXCEPT !.invocations =
                           Append(@, [component_id |-> fetchone(found).id]) ],
           outcome |-> "ok", committed |-> TRUE ]

TrackedIdentity(arg) ==
    LET who == parse_component(arg[1]) IN
    [platform |-> arg[2], name |-> who.name, type |-> who.type]

TrackInvocation ==
    /\ dbconn.state = "open"
    /\ CallsLeft
    /\ \E arg \in TrackArgs :
         LET r == track_invocation(dbview, dbconn, TrackedIdentity(arg)) IN
         /\ dbview' = r.content
         /\ dbfile' = IF r.committed THEN r.content ELSE dbfile
         /\ Logged(CatCall("track_invocation", r.outcome, arg))
    /\ UNCHANGED <<dbconn, artifacts, storeVars, toggleVars, scanVars, redVars, usageVars, mcpScanVars>>

\* ToolingDatabase.close: sqlite3 discards the open transaction.
CloseDb ==
    /\ dbconn.state = "open"
    /\ CallsLeft
    /\ dbconn' = Closed
    /\ dbview' = dbfile
    /\ Logged(CatCall("close", "ok", <<>>))
    /\ UNCHANGED <<dbfile, artifacts, storeVars, toggleVars, scanVars, redVars, usageVars, mcpScanVars>>

(***************************************************************************)
(* The bin directory and the scan-and-store round of the CLI.              *)
(***************************************************************************)
\* Where the file b1 is: "A" bin/b1, "D" bin/.disabled/b1, "none"; whether
\* it is executable; and where the skill directory s1 is.
BinStates ==
    { [loc |-> l, executable |-> x, skill |-> s] :
        l \in {"none", "A", "D"}, x \in BOOLEAN, s \in {"none", "A", "D"} }

NoArtifacts == [loc |-> "none", executable |-> FALSE, skill |-> "none"]

\* The override for the .disabled location dropped.
scan_binary_anywhere(loc, executable) ==
    [ platform |-> "claude", name |-> "b1", type |-> "binary", origin |-> "in-house",
      status |-> IF executable THEN "active" ELSE "error",
      install_path |-> loc, attrs |-> {}, error_message |-> NULL ]

\* BinaryScanner._scan_binary and the override in scan(): a file under
\* .disabled is disabled, elsewhere it is active when executable.
scan_binary(loc, executable) ==
    [ platform |-> "claude", name |-> "b1", type |-> "binary", origin |-> "in-house",
      status |-> IF loc = "D" THEN "disabled"
                 ELSE IF executable THEN "active" ELSE "error",
      install_path |-> loc, attrs |-> {}, error_message |-> NULL ]

\* BinaryScanner.scan: the bin directory, then its .disabled sibling.
binary_scan(bin) ==
    IF bin.loc = "none" THEN <<>> ELSE <<scan_binary(bin.loc, bin.executable)>>

\* The fields of the SkillMetadata dataclass and of its base class.
SkillMetadataFields ==
    { "name", "origin", "status", "last_modified", "install_path", "platform",
      "type", "error_message", "version", "description", "file_count",
      "total_lines", "has_docs", "performance_notes", "dependencies" }

\* The keyword arguments _scan_skill passes to SkillMetadata (the first
\* fifteen of them).
scan_skill_kwargs ==
    { "name", "origin", "status", "last_modified", "install_path", "platform",
      "version", "description", "file_count", "total_lines", "has_docs",
      "performance_notes", "dependencies", "dependency_sources",
      "frontmatter_extra" }

\* SkillScanner.scan for the directory s1: _scan_skill, and the error
\* record of the except branch when the dataclass rejects a keyword.
scan_skill(loc) ==
    IF scan_skill_kwargs \subseteq SkillMetadataFields
    THEN [ platform |-> "claude", name |-> "s1", type |-> "skill",
           origin |-> "in-house",
           status |-> IF loc = "D" THEN "disabled" ELSE "active",
           install_path |-> loc,
           attrs |-> {<<"version", NULL>>, <<"description", "d1">>},
           error_message |-> NULL ]
    ELSE [ platform |-> "claude", name |-> "s1", type |-> "skill",
           origin |-> "unknown", status |-> "error", install_path |-> loc,
           attrs |-> {<<"version", NULL>>, <<"description", "">>},
           \* str(e): SkillMetadata.__init__() got an unexpected keyword argument
           error_message |-> "TypeError" ]

skill_scan(bin) == IF bin.skill = "none" THEN <<>> ELSE <<scan_skill(bin.skill)>>

\* ScanResult.all_components: skills come before binaries.
disk_scan(bin) == skill_scan(bin) \o binary_scan(bin)

\* tooling-index scan: scan the disk, then update_components.
ScanAndUpsert ==
    /\ dbconn.state = "open"
    /\ CallsLeft
    /\ LET scan == disk_scan(artifacts)
           s == upsert_all([content |-> dbview, raised |-> FALSE], scan, dbconn) IN
       /\ dbview' = s.content
       /\ dbfile' = IF s.raised THEN dbfile ELSE s.content
       /\ Logged(CatCall("scan_upsert", IF s.raised THEN "raised" ELSE "ok", scan))
    /\ UNCHANGED <<dbconn, artifacts, storeVars, toggleVars, scanVars, redVars, usageVars, mcpScanVars>>

\* The file, or the skill directory, is moved into the .disabled sibling
\* directory.
MoveToDisabled ==
    /\ CallsLeft
    /\ \/ artifacts.loc = "A" /\ artifacts' = [artifacts EXCEPT !.loc = "D"]
       \/ artifacts.skill = "A" /\ artifacts' = [artifacts EXCEPT !.skill = "D"]
    /\ Logged(CatCall("move", "ok", <<>>))
    /\ UNCHANGED <<dbfile, dbview, dbconn, storeVars, toggleVars, scanVars, redVars, usageVars, mcpScanVars>>

\* The directory a scanner of the type reads.
ScanRoot(type) == IF type = "binary" THEN "bin" ELSE "skills"

\* install_path of a scanned record.
PathAt(type, name, loc) ==
    IF loc = "D" THEN <<ScanRoot(type), ".disabled", name>> ELSE <<ScanRoot(type), name>>

\* The disk toggle_component works on: the bin and skills directories.
DiskOf(bin) ==
    LET tree(type, name, loc, content) ==
            {<< <<ScanRoot(type)>>, "dir" >>}
              \cup (IF loc = "A" THEN {<<PathAt(type, name, "A"), content>>} ELSE {})
              \cup (IF loc = "D" THEN { << <<ScanRoot(type), ".disabled">>, "dir" >>,
                                        <<PathAt(type, name, "D"), content>> }
                    ELSE {})
    IN  [ fs |-> tree("binary", "b1", bin.loc, "file")
                   \cup tree("skill", "s1", bin.skill, "dir"),
          claude_json |-> AbsentDoc, mcp_json |-> AbsentDoc, config_toml |-> AbsentToml ]

\* Where an artifact is on the disk toggle_component left.
LocIn(fs, type, name) ==
    IF Exists(fs, PathAt(type, name, "A")) THEN "A"
    ELSE IF Exists(fs, PathAt(type, name, "D")) THEN "D"
    ELSE "none"

\* ToolingApp.action_toggle_enabled: toggle the selected component of the
\* list the last load showed, then _load_components (scan and, best effort,
\* update_components).  A toggle that raises is notified and nothing is loaded.
ToggleEnabled ==
    /\ dbconn.state = "open"
    /\ CallsLeft
    /\ db_hist.calls # <<>>
    /\ db_hist.calls[Len(db_hist.calls)] = [op |-> "scan_upsert", outcome |-> "ok"]
    /\ \E i \in 1..Len(db_hist.last_arg) :
         LET component == db_hist.last_arg[i]
             e == [ type |-> component.type, platform |-> component.platform,
                    status |-> component.status, name |-> component.name,
                    origin |-> component.origin, from_plugin |-> FALSE,
                    install_path |-> PathAt(component.type, component.name,
                                            component.install_path) ]
             r == toggle_component(e, DiskOf(artifacts))
         IN
         IF r.outcome # "ok" THEN
             /\ Logged(CatCall("toggle_enabled", r.outcome,
                               <<[component |-> component, new_status |-> r.new_status]>>))
             /\ UNCHANGED <<dbfile, dbview, artifacts>>
         ELSE
             LET moved == [ artifacts EXCEPT
                              !.loc = LocIn(r.disk.fs, "binary", "b1"),
                              !.skill = LocIn(r.disk.fs, "skill", "s1") ]
                 scan == disk_scan(moved)
                 s == upsert_all([content |-> dbview, raised |-> FALSE], scan, dbconn)
             IN
             /\ artifacts' = moved
             /\ dbview' = s.content
             /\ dbfile' = IF s.raised THEN dbfile ELSE s.content
             /\ Logged(CatCall("toggle_enabled",
                               IF s.raised THEN "load_failed" ELSE "ok",
                               <<[component |-> component, new_status |-> r.new_status]>>))
    /\ UNCHANGED <<dbconn, storeVars, toggleVars, scanVars, redVars, usageVars, mcpScanVars>>

CatalogIdle ==
    /\ dbfile = NoFile
    /\ dbview = NoFile
    /\ dbconn = Closed
    /\ artifacts = NoArtifacts
    /\ db_hist = [ file0 |-> NoFile, pre_file |-> NoFile, pre_view |-> NoFile,
                   calls |-> <<>>, last_arg |-> <<>>, upserted |-> 0 ]

(***************************************************************************)
(* Redaction of MCP server configuration (scanners/mcps.py and             *)
(* scanners/codex_mcps.py).  A string is the sequence of its characters;   *)
(* a value carries its Python type in t: none, bool, int, str, list, dict  *)
(* (a sequence of <<key, value>> pairs) or date (a TOML date-time).        *)
(***************************************************************************)
MaxDepth == 2

\* len(compact) >= 32
TokenLen == 32

Alphabet ==
    [ lower  |-> <<"a", "b", "c", "d", "e", "f", "g", "h", "i", "j", "k", "l", "m", "n", "o", "p", "q", "r", "s", "t", "u", "v", "w", "x", "y", "z">>,
      upper  |-> <<"A", "B", "C", "D", "E", "F", "G", "H", "I", "J", "K", "L", "M", "N", "O", "P", "Q", "R", "S", "T", "U", "V", "W", "X", "Y", "Z">>,
      digits |-> <<"0", "1", "2", "3", "4", "5", "6", "7", "8", "9">> ]

CharsOf(cls) == { Alphabet[cls][i] : i \in DOMAIN Alphabet[cls] }

lower(s) ==
    [ i \in DOMAIN s |->
        IF s[i] \in CharsOf("upper")
        THEN Alphabet.lower[CHOOSE j \in DOMAIN Alphabet.upper : Alphabet.upper[j] = s[i]]
        ELSE s[i] ]

\* pat in s
Contains(s, pat) ==
    \E i \in 1..(Len(s) - Len(pat) + 1) : SubSeq(s, i, i + Len(pat) - 1) = pat

startswith(s, p) == Len(s) >= Len(p) /\ SubSeq(s, 1, Len(p)) = p

endswith(s, p) == Len(s) >= Len(p) /\ SubSeq(s, Len(s) - Len(p) + 1, Len(s)) = p

RECURSIVE strip(_)
strip(s) ==
    IF s = <<>> THEN s
    ELSE IF Head(s) = " " THEN strip(Tail(s))
    ELSE IF s[Len(s)] = " " THEN strip(SubSeq(s, 1, Len(s) - 1))
    ELSE s

\* _SENSITIVE_KEY_RE.search(key_str)
SENSITIVE_KEY_RE(key) ==
    \E pat \in { <<"t", "o", "k", "e", "n">>,
                 <<"s", "e", "c", "r", "e", "t">>,
                 <<"p", "a", "s", "s", "w", "o", "r", "d">>,
                 <<"a", "p", "i", "k", "e", "y">>,
                 <<"a", "p", "i", "_", "k", "e", "y">>,
                 <<"a", "p", "i", "-", "k", "e", "y">>,
                 <<"b", "e", "a", "r", "e", "r">>,
                 <<"a", "u", "t", "h", "o", "r", "i", "z", "a", "t", "i", "o", "n">>,
                 <<"a", "u", "t", "h">>,
                 <<"c", "o", "o", "k", "i", "e">> } :
        Contains(lower(key), pat)

\* any(token in key_lower for token in (...))
codex_sensitive_key(key) ==
    \E pat \in { <<"t", "o", "k", "e", "n">>,
                 <<"s", "e", "c", "r", "e", "t">>,
                 <<"p", "a", "s", "s", "w", "o", "r", "d">>,
                 <<"a", "p", "i", "_", "k", "e", "y">>,
                 <<"a", "p", "i", "k", "e", "y">>,
                 <<"b", "e", "a", "r", "e", "r">>,
                 <<"a", "u", "t", "h", "o", "r", "i", "z", "a", "t", "i", "o", "n">>,
                 <<"a", "u", "t", "h">>,
                 <<"c", "o", "o", "k", "i", "e">> } :
        Contains(lower(key), pat)

None == [t |-> "none", v |-> <<>>]

Str(chars) == [t |-> "str", v |-> chars]

REDACTED == Str(<<"<", "r", "e", "d", "a", "c", "t", "e", "d", ">">>)

\* value.startswith("${") and value.endswith("}")
is_placeholder(s) == startswith(s, <<"$", "{">>) /\ endswith(s, <<"}">>)

\* value.startswith(("/", "~", "./", "../"))
is_pathlike(s) ==
    \E p \in { <<"/">>, <<"~">>, <<".", "/">>, <<".", ".", "/">> } : startswith(s, p)

\* _HEX_TOKEN_RE.match(compact) or _B64_TOKEN_RE.match(compact)
TOKEN_RE(compact) ==
    LET hex == CharsOf("digits") \cup {"a", "b", "c", "d", "e", "f", "A", "B", "C", "D", "E", "F"}
        b64 == CharsOf("lower") \cup CharsOf("upper") \cup CharsOf("digits")
                   \cup {"+", "/", "=", "_", "-"}
    IN  /\ Len(compact) >= TokenLen
        /\ \/ \A i \in DOMAIN compact : compact[i] \in hex
           \/ \A i \in DOMAIN compact : compact[i] \in b64

\* all(ch.isalnum() or ch in "+/=_-" for ch in compact)
codex_token(compact) ==
    /\ Len(compact) >= TokenLen
    /\ \A i \in DOMAIN compact :
           compact[i] \in CharsOf("lower") \cup CharsOf("upper") \cup CharsOf("digits")
                              \cup {"+", "/", "=", "_", "-"}

\* scanners/mcps.py
RECURSIVE _redact_extra_config(_, _)
_redact_extra_config(value, key) ==
    IF value.t \in {"none", "bool", "int"} THEN value
    ELSE IF SENSITIVE_KEY_RE(key) THEN REDACTED
    ELSE IF value.t = "str"
    THEN IF is_placeholder(value.v) THEN value
         ELSE IF is_pathlike(value.v) THEN value
         ELSE IF TOKEN_RE(strip(value.v)) THEN REDACTED
         ELSE value
    ELSE IF value.t = "list"
    THEN [t |-> "list", v |-> [i \in DOMAIN value.v |-> _redact_extra_config(value.v[i], key)]]
    ELSE IF value.t = "dict"
    THEN [t |-> "dict",
          v |-> [i \in DOMAIN value.v |->
                    <<value.v[i][1], _redact_extra_config(value.v[i][2], value.v[i][1])>>]]
    ELSE Str(value.v)

\* scanners/codex_mcps.py
RECURSIVE _redact_config_extra(_, _)
_redact_config_extra(value, key) ==
    IF codex_sensitive_key(key) THEN REDACTED
    ELSE IF value.t \in {"none", "bool", "int"} THEN value
    ELSE IF value.t = "str"
    THEN IF is_placeholder(value.v) THEN value
         ELSE IF is_pathlike(value.v) THEN value
         ELSE IF codex_token(strip(value.v)) THEN REDACTED
         ELSE value
    ELSE IF value.t = "list"
    THEN [t |-> "list",
          v |-> [i \in DOMAIN value.v |-> _redact_config_extra(value.v[i], lower(key))]]
    ELSE IF value.t = "dict"
    THEN [t |-> "dict",
          v |-> [i \in DOMAIN value.v |->
                    <<value.v[i][1], _redact_config_extra(value.v[i][2], value.v[i][1])>>]]
    ELSE Str(value.v)

\* scanners/mcps.py
_redact_env_vars(env) ==
    [t |-> "dict",
     v |-> [i \in DOMAIN env.v |->
              LET value == env.v[i][2]
              IN  <<env.v[i][1],
                    IF value.t = "none" THEN Str(<<>>)
                    ELSE IF value.t = "str" /\ is_placeholder(value.v) THEN value
                    ELSE IF value.t = "str" /\ is_pathlike(value.v) THEN value
                    ELSE REDACTED>>]]

\* scanners/codex_mcps.py
codex_redact_env_vars(env, keep_placeholders) ==
    [t |-> "dict",
     v |-> [i \in DOMAIN env.v |->
              LET value == env.v[i][2]
              IN  <<env.v[i][1],
                    IF value.t = "none" THEN Str(<<>>)
                    ELSE IF keep_placeholders /\ value.t = "str" /\ is_placeholder(value.v)
                    THEN value
                    ELSE REDACTED>>]]

\* Keys of a server table that are not among the known ones.
ConfigKeys ==
    { <<"a", "p", "i", "_", "t", "o", "k", "e", "n">>,
      <<"X", "-", "A", "p", "i", "-", "K", "e", "y">>,
      <<"P", "A", "S", "S", "W", "O", "R", "D">>,
      <<"a", "u", "t", "h", "o", "r">>,
      <<"r", "e", "g", "i", "o", "n">> }

Scalars ==
    { None,
      [t |-> "bool", v |-> TRUE],
      [t |-> "int", v |-> 12345],
      [t |-> "date", v |-> <<"2", "0", "2", "4">>],
      Str(<<"$", "{", "A", "}">>),
      Str(<<"/", "x">>),
      Str(<<"s", "3">>),
      Str([i \in 1..TokenLen |-> "a"]) }

RECURSIVE ConfigValues(_)
ConfigValues(depth) ==
    IF depth = 0 THEN Scalars
    ELSE LET inner == ConfigValues(depth - 1)
         IN  inner
               \cup { [t |-> "list", v |-> <<x>>] : x \in inner }
               \cup { [t |-> "dict", v |-> << <<k, x>> >>] : k \in ConfigKeys, x \in inner }

\* One server table with one key besides the known ones, or its env table.
Configs ==
    { [t |-> "dict", v |-> << <<k, x>> >>] : k \in ConfigKeys, x \in ConfigValues(MaxDepth) }

RedactIdle == redaction = [fn |-> "none", config |-> None, out |-> None]

\* MCPScanner._parse_mcp_config: config_extra
RedactExtraConfig ==
    /\ redaction.fn = "none"
    /\ redaction' =
         [redaction EXCEPT
            !.fn = "_redact_extra_config",
            !.out = [t |-> "dict",
                     v |-> [i \in DOMAIN redaction.config.v |->
                              <<redaction.config.v[i][1],
                                _redact_extra_config(redaction.config.v[i][2],
                                                     redaction.config.v[i][1])>>]]]
    /\ UNCHANGED <<storeVars, toggleVars, scanVars, catVars, usageVars, mcpScanVars>>

\* CodexMCPScanner.scan: config_extra
RedactConfigExtra ==
    /\ redaction.fn = "none"
    /\ redaction' =
         [redaction EXCEPT
            !.fn = "_redact_config_extra",
            !.out = [t |-> "dict",
                     v |-> [i \in DOMAIN redaction.config.v |->
                              <<redaction.config.v[i][1],
                                _redact_config_extra(redaction.config.v[i][2],
                                                     redaction.config.v[i][1])>>]]]
    /\ UNCHANGED <<storeVars, toggleVars, scanVars, catVars, usageVars, mcpScanVars>>

\* MCPScanner._parse_mcp_config: env_vars_safe
RedactEnvVars ==
    /\ redaction.fn = "none"
    /\ redaction' = [redaction EXCEPT !.fn = "_redact_env_vars",
                                      !.out = _redact_env_vars(redaction.config)]
    /\ UNCHANGED <<storeVars, toggleVars, scanVars, catVars, usageVars, mcpScanVars>>

\* CodexMCPScanner.scan: env_vars
CodexRedactEnvVars ==
    /\ redaction.fn = "none"
    /\ redaction' = [redaction EXCEPT !.fn = "codex._redact_env_vars",
                                      !.out = codex_redact_env_vars(redaction.config, TRUE)]
    /\ UNCHANGED <<storeVars, toggleVars, scanVars, catVars, usageVars, mcpScanVars>>

(***************************************************************************)
(* Usage of one component: get_component_usage (database.py).  The rows    *)
(* of the invocations table for the component, all inside the window, of   *)
(* one session and successful, are given by how many of them have each     *)
(* duration_ms and how many have none.                                     *)
(***************************************************************************)
MaxInvocations == 31

MaxUntimed == 1

DurationValues == {0, 3, 8}

RECURSIVE SumOver(_, _)
SumOver(f, S) ==
    IF S = {} THEN 0
    ELSE LET v == CHOOSE x \in S : TRUE IN f[v] + SumOver(f, S \ {v})

InvocationTables ==
    { [timed |-> f, untimed |-> u] :
        f \in { g \in [DurationValues -> 0..MaxInvocations] :
                  SumOver(g, DurationValues) <= MaxInvocations },
        u \in 0..MaxUntimed }

\* SELECT duration_ms ... WHERE duration_ms IS NOT NULL ... ORDER BY duration_ms
ordered_durations(table) ==
    [ i \in 1..SumOver(table.timed, DurationValues) |->
        CHOOSE v \in DurationValues :
            LET below == SumOver(table.timed, { w \in DurationValues : w < v })
            IN  below < i /\ i <= below + table.timed[v] ]

\* int(round(num / den)) of Python 3: a half goes to the even neighbour.
\* (0.95 * m as a float rounds as the exact 95 m / 100 does for every m up
\* to 100.)
python_round(num, den) ==
    LET q == num \div den
        twice == 2 * (num % den)
    IN  IF twice < den THEN q
        ELSE IF twice > den THEN q + 1
        ELSE IF q % 2 = 0 THEN q ELSE q + 1

\* durations = [r["duration_ms"] for r in rows if r["duration_ms"]], then the
\* element at int(round(0.95 * (len - 1))), clamped; None for no durations.
p95_duration(rows) ==
    LET durations == SelectSeq(rows, LAMBDA d : d # 0) IN
    IF durations = <<>> THEN <<>>
    ELSE LET idx == python_round(95 * (Len(durations) - 1), 100)
             clamped == IF idx < 0 THEN 0
                        ELSE IF idx > Len(durations) - 1 THEN Len(durations) - 1 ELSE idx
         IN  <<durations[clamped + 1]>>

\* get_component_usage(platform, name, component_type): None is <<>>, a value
\* v is <<v>>, a quotient is [num, den].
get_component_usage(found, table) ==
    IF ~found THEN
        [ found |-> FALSE, platform |-> "claude", name |-> "b1", type |-> "binary",
          days |-> 30, total_invocations |-> 0 ]
    ELSE
        LET timed == SumOver(table.timed, DurationValues)
            total == timed + table.untimed
            sum == SumOver([v \in DurationValues |-> v * table.timed[v]], DurationValues)
        IN
        [ found |-> TRUE, platform |-> "claude", name |-> "b1", type |-> "binary",
          days |-> 30,
          total_invocations |-> total,
          sessions |-> IF total > 0 THEN 1 ELSE 0,
          success_rate |-> IF total > 0 THEN <<[num |-> total, den |-> total]>> ELSE <<>>,
          avg_duration_ms |-> IF timed > 0 THEN <<[num |-> sum, den |-> timed]>> ELSE <<>>,
          p95_duration_ms |-> p95_duration(ordered_durations(table)),
          last_invoked |-> IF total > 0 THEN <<"now">> ELSE <<>>,
          recent_errors |-> <<>> ]

NoInvocations == [timed |-> [v \in DurationValues |-> 0], untimed |-> 0]

UsageIdle == usage = [found |-> FALSE, table |-> NoInvocations, called |-> FALSE, result |-> <<>>]

\* A caller asks for the usage of the component.
GetComponentUsage ==
    /\ ~usage.called
    /\ usage' = [usage EXCEPT !.called = TRUE,
                              !.result = get_component_usage(usage.found, usage.table)]
    /\ UNCHANGED <<storeVars, toggleVars, scanVars, catVars, redVars, mcpScanVars>>

(***************************************************************************)
(* Codex MCP scanner: CodexMCPScanner.scan (scanners/codex_mcps.py) over   *)
(* the config.toml it is pointed at.                                       *)
(***************************************************************************)
McpNames == <<"m1", "m2">>

McpNameSet == { McpNames[i] : i \in 1..Len(McpNames) }

\* The value under mcp_servers or mcp_servers_disabled: no such key, a
\* value that is not a table, or a table whose entries are tables or not.
ServerSections ==
    { [kind |-> k, servers |-> <<>>] : k \in {"missing", "scalar"} } \cup
    { [kind |-> "table", servers |-> s] :
        s \in UNION { [S -> {"table", "scalar"}] : S \in SUBSET McpNameSet } }

ConfigTomls ==
    { [state |-> s, mcp_servers |-> [kind |-> "missing", servers |-> <<>>],
       mcp_servers_disabled |-> [kind |-> "missing", servers |-> <<>>]] :
        s \in {"absent", "unreadable", "malformed"} } \cup
    { [state |-> "parsed", mcp_servers |-> e, mcp_servers_disabled |-> d] :
        e \in ServerSections, d \in ServerSections }

\* The fields of the MCPMetadata dataclass and of its base class.
MCPMetadataFields ==
    { "name", "origin", "status", "last_modified", "install_path", "platform",
      "type", "error_message", "command", "args", "env_vars", "transport",
      "git_remote" }

\* The keyword arguments CodexMCPScanner.scan passes to MCPMetadata.
codex_mcp_kwargs ==
    { "name", "origin", "status", "last_modified", "install_path", "platform",
      "command", "args", "env_vars", "transport", "source", "source_detail",
      "git_remote", "config_extra" }

\* for name, cfg in mcp_servers.items(): if not isinstance(cfg, dict): continue
ServersOf(section, status) ==
    LET names == SelectSeq(McpNames,
                     LAMBDA nm : nm \in DOMAIN section.servers
                                 /\ section.servers[nm] = "table")
    IN  [ i \in 1..Len(names) |->
            [ platform |-> "codex", name |-> names[i], type |-> "mcp",
              origin |-> "in-house", status |-> status, error_message |-> NULL ] ]

\* CodexMCPScanner.scan: what the call does (returns or raises) and the
\* records it returns.
codex_mcp_scan(file) ==
    IF file.state = "absent" THEN [outcome |-> "returned", records |-> <<>>]
    \* _load_toml: open() and tomllib.load() are not guarded.
    ELSE IF file.state = "unreadable" THEN [outcome |-> "OSError", records |-> <<>>]
    ELSE IF file.state = "malformed" THEN [outcome |-> "TOMLDecodeError", records |-> <<>>]
    ELSE IF file.mcp_servers.kind = "scalar" \/ file.mcp_servers_disabled.kind = "scalar"
    THEN [outcome |-> "returned", records |-> <<>>]
    ELSE LET mcps == ServersOf(file.mcp_servers, "active")
                     \o ServersOf(file.mcp_servers_disabled, "disabled")
         IN  IF mcps = <<>> \/ codex_mcp_kwargs \subseteq MCPMetadataFields
             THEN [outcome |-> "returned", records |-> mcps]
             \* MCPMetadata.__init__() got an unexpected keyword argument
             ELSE [outcome |-> "TypeError", records |-> <<>>]

McpScanIdle ==
    mcp_scan = [ file |-> [state |-> "absent",
                           mcp_servers |-> [kind |-> "missing", servers |-> <<>>],
                           mcp_servers_disabled |-> [kind |-> "missing", servers |-> <<>>]],
                 called |-> FALSE, outcome |-> "none", records |-> <<>> ]

\* A caller runs the scanner.
CodexMcpScan ==
    /\ ~mcp_scan.called
    /\ LET r == codex_mcp_scan(mcp_scan.file)
       IN  mcp_scan' = [mcp_scan EXCEPT !.called = TRUE,
                                        !.outcome = r.outcome,
                                        !.records = r.records]
    /\ UNCHANGED <<storeVars, toggleVars, scanVars, catVars, redVars, usageVars>>

(***************************************************************************)
(* Specifications.                                                         *)
(***************************************************************************)
ScanIdle ==
    /\ request = [platform |-> "claude", fails |-> {}, missing |-> {}]
    /\ run = 3
    /\ done = {}
    /\ errs = [claude |-> <<>>, codex |-> <<>>, top |-> <<>>]
    /\ results = <<>>

StoreInit ==
    /\ StoreFileInit
    /\ conn = "closed"
    /\ store_hist = [migrated |-> FALSE, dup |-> FALSE, n |-> 0]
    /\ source = <<>>
    /\ upserts = 0
    /\ ToggleIdle
    /\ ScanIdle
    /\ CatalogIdle
    /\ RedactIdle /\ UsageIdle /\ McpScanIdle

StoreNext == Open \/ Upsert

SpecStore == StoreInit /\ [][StoreNext]_vars

RescanInit ==
    /\ StoreFileInit
    /\ conn = "closed"
    /\ store_hist = [migrated |-> FALSE, dup |-> FALSE, n |-> 0]
    /\ source \in ScanResults
    /\ upserts = 0
    /\ ToggleIdle
    /\ ScanIdle
    /\ CatalogIdle
    /\ RedactIdle /\ UsageIdle /\ McpScanIdle

RescanNext == Open \/ UpsertSource

SpecRescan == RescanInit /\ [][RescanNext]_vars

ToggleSpecInit == StoreIdle /\ ToggleInit /\ ScanIdle /\ CatalogIdle /\ RedactIdle /\ UsageIdle /\ McpScanIdle

ToggleNext == Toggle \/ Refresh

SpecToggle == ToggleSpecInit /\ [][ToggleNext]_vars

(***************************************************************************)
(* C1: in an opened store no two entries have the same                     *)
(* (platform, name, type), whatever was upserted and however it was opened.*)
(***************************************************************************)
C1_IdentityUnique ==
    conn = "open" =>
        \A r1, r2 \in components : Key(r1) = Key(r2) => r1 = r2

\* A migrated store that took a scan result with a repeated identity.
C1_Witness ==
    /\ conn = "open"
    /\ store_hist.migrated
    /\ store_hist.dup
    /\ Cardinality(components) >= 2

(***************************************************************************)
(* C2: after two upserts of the scan of an unchanged source into a store   *)
(* that did not hold the identity, every identity of the scan has one      *)
(* entry with exactly one installed event followed by exactly one updated  *)
(* event.                                                                  *)
(***************************************************************************)
EventsOf(id) ==
    SelectSeq(installation_events, LAMBDA e : e.component_id = id)

EventTypes(id) ==
    [ i \in 1..Len(EventsOf(id)) |-> EventsOf(id)[i].event_type ]

SourceKeys == { Key(source[i]) : i \in 1..Len(source) }

Occurrences(k) == Cardinality({ i \in 1..Len(source) : Key(source[i]) = k })

C2_OneInstalledOneUpdated ==
    (conn = "open" /\ upserts = 2 /\ ~store_hist.migrated) =>
        \A k \in SourceKeys :
            \E r \in components :
                /\ Key(r) = k
                /\ \A q \in components : Key(q) = k => q = r
                /\ EventTypes(r.id) = <<"installed", "updated">>

(***************************************************************************)
(* Toggle engine: what the claims observe.                                 *)
(***************************************************************************)
LastIsToggle == toggle_hist.calls # <<>> /\ LastCall.op = "toggle"

ConfigBacked(e) == e.type = "mcp" /\ e.platform \in {"claude", "codex"}

Artifacts(fs) == { f \in fs : f[2] # "dir" }

ScopeNames(s) == <<DictKeys(s.mcpServers), DictKeys(s.mcpServersDisabled)>>

DocNames(doc) ==
    <<doc.state, ScopeNames(doc.top),
      [i \in 1..Len(doc.projects) |-> ScopeNames(doc.projects[i])]>>

\* The name a header's key puts into its collection: the first key of the
\* dotted key, without quotes.
RootKey(key) == IF key[1] = "\"" THEN key[2] ELSE key[1]

TomlNames(toml, table) ==
    { RootKey(toml.lines[i].key) : i \in { j \in 1..Len(toml.lines) : toml.lines[j].table = table } }

\* The headers of the table of that name itself (not of its sub-tables).
TomlTables(toml, table, name) ==
    { i \in 1..Len(toml.lines) :
        /\ toml.lines[i].table = table
        /\ toml.lines[i].key \in { <<name>>, <<"\"", name, "\"">> } }

SameLocation(d1, d2) ==
    /\ Artifacts(d1.fs) = Artifacts(d2.fs)
    /\ DocNames(d1.claude_json) = DocNames(d2.claude_json)
    /\ DocNames(d1.mcp_json) = DocNames(d2.mcp_json)
    /\ d1.config_toml.state = d2.config_toml.state
    /\ \A tb \in {"mcp_servers", "mcp_servers_disabled"} :
           TomlNames(d1.config_toml, tb) = TomlNames(d2.config_toml, tb)

DocScopes(doc) == {doc.top} \cup { doc.projects[i] : i \in 1..Len(doc.projects) }

JsonScopes(d) == DocScopes(d.claude_json) \cup DocScopes(d.mcp_json)

\* Number of keys / tables of that name over all config documents of the platform.
JsonPlaces(doc, name) ==
    Cardinality({ <<i, c>> \in (0..Len(doc.projects)) \X {"mcpServers", "mcpServersDisabled"} :
        LET s == IF i = 0 THEN doc.top ELSE doc.projects[i] IN name \in DictKeys(s[c]) })

MatchCount(d, e) ==
    IF e.platform = "claude"
    THEN JsonPlaces(d.claude_json, e.name) + JsonPlaces(d.mcp_json, e.name)
    ELSE Cardinality(TomlTables(d.config_toml, "mcp_servers", e.name))
         + Cardinality(TomlTables(d.config_toml, "mcp_servers_disabled", e.name))

\* One document holds the name in its active and in its disabled collection.
InBothOfOneDocument(d, e) ==
    IF e.platform = "claude"
    THEN \E s \in JsonScopes(d) :
            e.name \in DictKeys(s.mcpServers) /\ e.name \in DictKeys(s.mcpServersDisabled)
    ELSE /\ TomlTables(d.config_toml, "mcp_servers", e.name) # {}
         /\ TomlTables(d.config_toml, "mcp_servers_disabled", e.name) # {}

\* The entries the engine must refuse with "not supported".
NonToggleable(e) ==
    \/ e.status \notin {"active", "disabled"}
    \/ e.type = "command" /\ e.from_plugin
    \/ e.type = "mcp" /\ e.platform = "claude" /\ e.origin = "plugin"
    \/ e.type = "mcp" /\ e.platform = "claude" /\ e.name = "claude-in-chrome"

\* The artifact of e is in the location / collection that status st names,
\* and no part of it is in the other one.
LocatedAt(d, e, st) ==
    IF FileBacked(e) THEN
        IF st = "disabled"
        THEN Exists(d.fs, DisabledPath(e.type)) /\ ~Exists(d.fs, ActivePath(e.type))
        ELSE Exists(d.fs, ActivePath(e.type)) /\ ~Exists(d.fs, DisabledPath(e.type))
    ELSE IF e.platform = "claude" THEN
        IF st = "disabled"
        THEN /\ \E s \in JsonScopes(d) : e.name \in DictKeys(s.mcpServersDisabled)
             /\ \A s \in JsonScopes(d) : e.name \notin DictKeys(s.mcpServers)
        ELSE /\ \E s \in JsonScopes(d) : e.name \in DictKeys(s.mcpServers)
             /\ \A s \in JsonScopes(d) : e.name \notin DictKeys(s.mcpServersDisabled)
    ELSE
        IF st = "disabled"
        THEN /\ e.name \in TomlNames(d.config_toml, "mcp_servers_disabled")
             /\ e.name \notin TomlNames(d.config_toml, "mcp_servers")
        ELSE /\ e.name \in TomlNames(d.config_toml, "mcp_servers")
             /\ e.name \notin TomlNames(d.config_toml, "mcp_servers_disabled")

(***************************************************************************)
(* C3: toggling an entry and then toggling the refreshed entry succeeds,   *)
(* returns the original status and leaves every artifact in its original   *)
(* location and every name in its original collection of every document.   *)
(***************************************************************************)
C3_ToggleReversible ==
    LET c == toggle_hist.calls IN
    ( /\ Len(c) = 3
      /\ c[1].op = "toggle" /\ c[1].outcome = "ok"
      /\ c[2].op = "refresh"
      /\ c[3].op = "toggle" )
    => /\ c[3].outcome = "ok"
       /\ c[3].new_status = toggle_hist.entry0.status
       /\ SameLocation(disk, toggle_hist.disk0)

(***************************************************************************)
(* C4: when toggle raises ToggleError or ToggleNotSupported, the disk is   *)
(* what it was before the call.                                            *)
(***************************************************************************)
C4_FailureChangesNothing ==
    (LastIsToggle /\ LastCall.outcome \in {"ToggleError", "ToggleNotSupported"})
        => disk = toggle_hist.pre

(***************************************************************************)
(* C5: toggle of a config-backed entry succeeds only when its name matches *)
(* exactly one key / table over all config documents of its platform.      *)
(***************************************************************************)
C5_ExactlyOneMatch ==
    (LastIsToggle /\ ConfigBacked(entry) /\ LastCall.outcome = "ok")
        => MatchCount(toggle_hist.pre, entry) = 1

(***************************************************************************)
(* C6: when one document holds the name in both its active and its         *)
(* disabled collection, toggle raises ToggleError and the documents stay   *)
(* as they were.                                                           *)
(***************************************************************************)
C6_AmbiguousNameRejected ==
    ( /\ LastIsToggle
      /\ ConfigBacked(entry)
      /\ ~NonToggleable(entry)
      /\ InBothOfOneDocument(toggle_hist.pre, entry) )
    => /\ LastCall.outcome = "ToggleError"
       /\ disk = toggle_hist.pre

(***************************************************************************)
(* C7: toggle raises ToggleNotSupported and changes nothing for an entry   *)
(* whose status is not active / disabled, for a plugin's command, for a    *)
(* Claude MCP of origin plugin and for the built-in MCP.                   *)
(***************************************************************************)
C7_NotSupported ==
    (LastIsToggle /\ NonToggleable(entry))
        => /\ LastCall.outcome = "ToggleNotSupported"
           /\ disk = toggle_hist.pre

\* A plugin's command of status active whose file is there to be moved.
C7_Witness ==
    /\ LastIsToggle
    /\ entry.type = "command"
    /\ entry.from_plugin
    /\ entry.status = "active"
    /\ entry.install_path = ActivePath("command")
    /\ Exists(disk.fs, entry.install_path)
    /\ ~Exists(disk.fs, DisabledPath("command"))

(***************************************************************************)
(* C8: after a successful toggle the artifact is where the returned        *)
(* new_status says, and no part of it is left in the other location.       *)
(***************************************************************************)
C8_ArtifactWhereStatusSays ==
    (LastIsToggle /\ LastCall.outcome = "ok")
        => LocatedAt(disk, entry, LastCall.new_status)

(***************************************************************************)
(* Scan orchestrators: ToolingScanner, CodexToolingScanner and             *)
(* MultiToolingScanner.  One behaviour calls scan_all twice on the same    *)
(* disk, first with parallel=False and then with parallel=True.            *)
(***************************************************************************)
MaxFailures == 2

ClaudeTypes == <<"skills", "plugins", "commands", "hooks", "mcps", "binaries">>

CodexTypes == <<"skills", "mcps">>

TypesOf(pf) == IF pf = "claude" THEN ClaudeTypes ELSE CodexTypes

ComponentTypes == { ClaudeTypes[i] : i \in 1..Len(ClaudeTypes) }

ScannerTasks(pf) == { <<pf, TypesOf(pf)[i]>> : i \in 1..Len(TypesOf(pf)) }

Scope(req) == IF req.platform = "all" THEN {"claude", "codex"} ELSE {req.platform}

\* What one platform's scan consists of: its scanners, or, when its home
\* directory is missing, the constructor call that raises.
TasksOfPlatform(req, pf) ==
    IF pf \in req.missing THEN { <<pf, "home">> } ELSE ScannerTasks(pf)

RunTasks(req) == UNION { TasksOfPlatform(req, pf) : pf \in Scope(req) }

Requests ==
    { [platform |-> p, fails |-> f, missing |-> m] :
        p \in {"claude", "codex", "all"},
        f \in SUBSET (ScannerTasks("claude") \cup ScannerTasks("codex")),
        m \in SUBSET {"claude", "codex"} }

\* scan_all of a single platform raises when the home is missing, so a
\* missing home is only scanned through platform "all"; a scanner that is
\* not run cannot raise.
ValidRequests ==
    { req \in Requests :
        /\ req.platform # "all" => req.missing = {}
        /\ req.fails \subseteq RunTasks(req)
        /\ Cardinality(req.fails) <= MaxFailures }

\* What a scanner returns from the disk when it does not raise.
Found(task) == << [platform |-> task[1], type |-> task[2], name |-> "x1"] >>

ClaudeErrorMsg(t) == <<"Error scanning", t, "boom">>

CodexErrorMsg(t) == <<"[codex]", "Error scanning", t, "boom">>

ScanFailedMsg(pf) ==
    <<IF pf = "claude" THEN "[claude]" ELSE "[codex]", "scan failed", "home not found">>

Finished == { d.task : d \in done }

Pending == RunTasks(request) \ Finished

Position(t, types) == CHOOSE i \in 1..Len(types) : types[i] = t

\* The tasks that have returned before the given one can return.
Before(req, parallel, task) ==
    IF req.platform = "all"
    THEN IF ~parallel /\ task[1] = "codex" THEN TasksOfPlatform(req, "claude") ELSE {}
    ELSE IF parallel THEN {}
         ELSE { <<task[1], TypesOf(task[1])[j]>> : j \in 1..(Position(task[2], TypesOf(task[1])) - 1) }

Ready(task) ==
    /\ run \in {1, 2}
    /\ task \in Pending
    /\ Before(request, run = 2, task) \subseteq Finished

\* A _safe_scan whose error report replaces the list instead of extending it.
safe_scan_overwriting(task, msg) ==
    IF task \in request.fails
    THEN /\ errs' = [errs EXCEPT ![task[1]] = <<msg>>]
         /\ done' = done \cup { [task |-> task, value |-> <<>>] }
    ELSE /\ errs' = errs
         /\ done' = done \cup { [task |-> task, value |-> Found(task)] }

safe_scan(task, msg) ==
    IF task \in request.fails
    THEN /\ errs' = [errs EXCEPT ![task[1]] = Append(@, msg)]
         /\ done' = done \cup { [task |-> task, value |-> <<>>] }
    ELSE /\ errs' = errs
         /\ done' = done \cup { [task |-> task, value |-> Found(task)] }

ClaudeSafeScan ==
    \E task \in ScannerTasks("claude") :
        /\ Ready(task)
        /\ safe_scan(task, ClaudeErrorMsg(task[2]))
        /\ UNCHANGED <<request, run, results, storeVars, toggleVars, catVars, redVars, usageVars, mcpScanVars>>

CodexSafeScan ==
    \E task \in ScannerTasks("codex") :
        /\ Ready(task)
        /\ safe_scan(task, CodexErrorMsg(task[2]))
        /\ UNCHANGED <<request, run, results, storeVars, toggleVars, catVars, redVars, usageVars, mcpScanVars>>

TryScanFailed ==
    \E pf \in {"claude", "codex"} :
        /\ Ready(<<pf, "home">>)
        /\ errs' = [errs EXCEPT !.top = Append(@, ScanFailedMsg(pf))]
        /\ done' = done \cup { [task |-> <<pf, "home">>, value |-> <<>>] }
        /\ UNCHANGED <<request, run, results, storeVars, toggleVars, catVars, redVars, usageVars, mcpScanVars>>

ValueOf(task) ==
    IF \E d \in done : d.task = task
    THEN (CHOOSE d \in done : d.task = task).value
    ELSE <<>>

\* The ScanResult one platform's scan_all returns (ScanResult() when the
\* constructor raised).
PlatformResult(pf) ==
    [ components |-> [t \in ComponentTypes |-> ValueOf(<<pf, t>>)],
      errors |-> errs[pf] ]

merge_results(a, b) == [t \in ComponentTypes |-> a.components[t] \o b.components[t]]

ScanResultOf(req) ==
    IF req.platform = "all"
    THEN [ components |-> merge_results(PlatformResult("claude"), PlatformResult("codex")),
           errors |-> PlatformResult("claude").errors \o PlatformResult("codex").errors
                      \o errs.top ]
    ELSE PlatformResult(req.platform)

NoErrors == [claude |-> <<>>, codex |-> <<>>, top |-> <<>>]

ScanAllReturn ==
    /\ run \in {1, 2}
    /\ Pending = {}
    /\ results' = Append(results, ScanResultOf(request))
    /\ run' = run + 1
    /\ done' = {}
    /\ errs' = NoErrors
    /\ UNCHANGED <<request, storeVars, toggleVars, catVars, redVars, usageVars, mcpScanVars>>

ScanInit ==
    /\ StoreIdle
    /\ ToggleIdle
    /\ CatalogIdle
    /\ RedactIdle /\ UsageIdle /\ McpScanIdle
    /\ request \in ValidRequests
    /\ run = 1
    /\ done = {}
    /\ errs = NoErrors
    /\ results = <<>>

ScanNext == ClaudeSafeScan \/ CodexSafeScan \/ TryScanFailed \/ ScanAllReturn

SpecScan == ScanInit /\ [][ScanNext]_vars

(***************************************************************************)
(* Scan orchestrators: what the claims observe.                            *)
(***************************************************************************)
PlatformTag(pf) == IF pf = "claude" THEN "[claude]" ELSE "[codex]"

Names(msg, word) == \E i \in 1..Len(msg) : msg[i] = word

OfPlatform(seq, pf) == SelectSeq(seq, LAMBDA r : r.platform = pf)

(***************************************************************************)
(* C9: on the same disk, scan_all(parallel=False) and                      *)
(* scan_all(parallel=True) return the same component sequences and the     *)
(* same error list in the same order, however the tasks interleave.        *)
(***************************************************************************)
C9_SequentialEqualsParallel ==
    Len(results) = 2 => results[1] = results[2]

(***************************************************************************)
(* C10: when exactly one scanner raises, the result has no component of    *)
(* that scanner, exactly one error string, which names the platform and    *)
(* the component type, and every sibling scanner's components are there.   *)
(***************************************************************************)
C10_FailureIsolated ==
    \A i \in 1..Len(results) :
        \A task \in request.fails :
            (request.fails = {task} /\ request.missing = {}) =>
                LET r == results[i] IN
                /\ OfPlatform(r.components[task[2]], task[1]) = <<>>
                /\ Len(r.errors) = 1
                /\ Names(r.errors[1], PlatformTag(task[1]))
                /\ Names(r.errors[1], task[2])
                /\ \A other \in RunTasks(request) \ {task} :
                       OfPlatform(r.components[other[2]], other[1]) = Found(other)

(***************************************************************************)
(* Catalog store: specification.                                           *)
(***************************************************************************)
HistInit ==
    db_hist = [ file0 |-> dbfile, pre_file |-> dbfile, pre_view |-> dbfile,
                calls |-> <<>>, last_arg |-> <<>>, upserted |-> 0 ]

\* Old-generation files of one row with well-formed metadata.
SmallLegacyFiles ==
    { f \in LegacyFiles :
        /\ Cardinality(f.components) = 1
        /\ \A r \in f.components :
               r.name = "b1" /\ r.metadata_json = [kind |-> "object", items |-> {}]
        /\ ~f.leftover /\ ~f.has_fts /\ f.fk = "components" }

\* Upserts and tracking on a fresh store or on a migrated one.
CatalogInit ==
    /\ StoreIdle /\ ToggleIdle /\ ScanIdle /\ RedactIdle /\ UsageIdle /\ McpScanIdle
    /\ dbfile \in {NoFile} \cup SmallLegacyFiles
    /\ dbview = dbfile
    /\ dbconn = Closed
    /\ artifacts = NoArtifacts
    /\ HistInit

CatalogNext == OpenDb \/ UpdateComponents \/ TrackInvocation \/ CloseDb

SpecCatalog == CatalogInit /\ [][CatalogNext]_vars

\* Opening store files of every kind.
MigrateInit ==
    /\ StoreIdle /\ ToggleIdle /\ ScanIdle /\ RedactIdle /\ UsageIdle /\ McpScanIdle
    /\ dbfile \in {NoFile} \cup LegacyFiles
    /\ dbview = dbfile
    /\ dbconn = Closed
    /\ artifacts = NoArtifacts
    /\ HistInit

MigrateNext == OpenDb \/ CloseDb

SpecMigrate == MigrateInit /\ [][MigrateNext]_vars

\* Scanning the bin directory into a fresh store while the file is moved.
DiskScanInit ==
    /\ StoreIdle /\ ToggleIdle /\ ScanIdle /\ RedactIdle /\ UsageIdle /\ McpScanIdle
    /\ dbfile = NoFile
    /\ dbview = dbfile
    /\ dbconn = Closed
    /\ artifacts \in BinStates
    /\ HistInit

DiskScanNext == OpenDb \/ ScanAndUpsert \/ MoveToDisabled \/ ToggleEnabled \/ CloseDb

SpecDiskScan == DiskScanInit /\ [][DiskScanNext]_vars

(***************************************************************************)
(* Catalog store: what the claims observe.                                 *)
(***************************************************************************)
CatCalls == db_hist.calls

LastCat == CatCalls[Len(CatCalls)]

LastCatIs(op, outcome) ==
    CatCalls # <<>> /\ LastCat.op = op /\ LastCat.outcome = outcome

\* The entry rows, the event log and the search index of a store content.
Catalogued(c) == <<c.components, c.events, c.fts>>

(***************************************************************************)
(* C11: an update_components call that raises partway leaves none of its   *)
(* entry rows, events or search-index rows in the store, also not after a  *)
(* later successful call has committed.                                    *)
(***************************************************************************)
C11_FailedUpsertLeavesNothing ==
    LET n == Len(CatCalls) IN
    ( /\ n >= 2
      /\ CatCalls[n - 1] = [op |-> "update_components", outcome |-> "raised"]
      /\ LastCatIs("track_invocation", "ok") )
    => Catalogued(dbfile) = Catalogued(db_hist.pre_file)

(***************************************************************************)
(* C12: track on an identity without an entry writes no invocation row,    *)
(* changes nothing in the store and raises nothing; every invocation row   *)
(* references an existing entry.                                           *)
(***************************************************************************)
C12_UnknownIdentityDropped ==
    /\ ( /\ CatCalls # <<>>
         /\ LastCat.op = "track_invocation"
         /\ existing(db_hist.pre_view.components, TrackedIdentity(db_hist.last_arg)) = {} )
       => /\ LastCat.outcome = "ok"
          /\ dbfile = db_hist.pre_file
          /\ dbview = db_hist.pre_view
    /\ \A c \in {dbfile, dbview} :
           \A i \in 1..Len(c.invocations) :
               \E r \in c.components \cup c.old : r.id = c.invocations[i].component_id

\* An identity without an entry is tracked on a store that holds entries.
C12_Witness ==
    /\ LastCatIs("track_invocation", "ok")
    /\ dbview.components # {}
    /\ existing(db_hist.pre_view.components, TrackedIdentity(db_hist.last_arg)) = {}

\* An old-generation file as the old program wrote it: UNIQUE(name, type),
\* metadata written by json.dumps of a dict, no table left over.
WellFormedLegacy(c) ==
    /\ c.gen = "old"
    /\ ~c.leftover
    /\ \A r1, r2 \in c.components :
           (r1.name = r2.name /\ r1.type = r2.type) => r1 = r2
    /\ \A r \in c.components : r.metadata_json.kind = "object"

Migrated == LastCatIs("open", "ok") /\ db_hist.last_arg = <<"migration">>

C14_FailedMigrationRolledBack ==
    LastCatIs("open", "raised") =>
        /\ dbfile = db_hist.pre_file
        /\ dbfile.gen = "old"
        /\ dbfile.old = {}
        /\ dbfile.fk # "components_old"

\* The failure came in the last step, after the old table was dropped.
C14_Witness ==
    /\ LastCatIs("open", "raised")
    /\ ~dbfile.leftover
    /\ TableUnique({ migrate_row(r) : r \in dbfile.components })
    /\ Cardinality(dbfile.components) = 2
    /\ \E r \in dbfile.components : r.metadata_json.kind = "array"

(***************************************************************************)
(* C17: an artifact upserted as active, then moved into .disabled, then    *)
(* scanned and upserted again: the same entry has status disabled and the  *)
(* store holds exactly one entry for its identity.                         *)
(***************************************************************************)
\* The file-backed identities of the scanned disk and where each one is.
DiskIdentities == { <<"claude", "b1", "binary">>, <<"claude", "s1", "skill">> }

LocationOf(k) == IF k[3] = "binary" THEN artifacts.loc ELSE artifacts.skill

MovedAndRescanned(k) ==
    LET n == Len(CatCalls) IN
    /\ n >= 3
    /\ CatCalls[n - 2] = [op |-> "scan_upsert", outcome |-> "ok"]
    /\ CatCalls[n - 1] = [op |-> "move", outcome |-> "ok"]
    /\ CatCalls[n] = [op |-> "scan_upsert", outcome |-> "ok"]
    /\ LocationOf(k) = "D"
    /\ \E r \in db_hist.pre_view.components : Key(r) = k /\ r.status = "active"

LastRecordFor(scan, r) ==
    LET at == { i \in 1..Len(scan) : Key(scan[i]) = Key(r) } IN
    scan[CHOOSE i \in at : \A j \in at : j <= i]

Reupserted(r) ==
    /\ LastCatIs("update_components", "ok")
    /\ \E i \in 1..Len(db_hist.last_arg) : Key(db_hist.last_arg[i]) = Key(r)

C18_UpsertReplaces ==
    \A old \in db_hist.pre_view.components :
        Reupserted(old) =>
            LET c == LastRecordFor(db_hist.last_arg, old) IN
            \E r \in dbfile.components :
                /\ r.id = old.id
                /\ r.origin = c.origin /\ r.status = c.status
                /\ r.install_path = c.install_path
                /\ r.version = (IF HasAttr(c.attrs, "version")
                                THEN Attr(c.attrs, "version", NULL) ELSE NULL)
                /\ r.metadata_json.kind = "object"
                /\ \A kv \in r.metadata_json.items :
                       kv \in c.attrs \/ kv[1] \in {"name", "type", "platform", "origin",
                                                     "status", "install_path"}
                /\ c.attrs \subseteq r.metadata_json.items

\* The stored entry has an author and a version, the new record has neither.
C18_Witness ==
    \E old \in db_hist.pre_view.components :
        /\ Reupserted(old)
        /\ old.metadata_json.kind = "object"
        /\ HasAttr(old.metadata_json.items, "author")
        /\ old.version # NULL
        /\ LastRecordFor(db_hist.last_arg, old).attrs = {}

(***************************************************************************)
(* Redaction: specification.  A configuration is drawn, then one of the    *)
(* four redaction functions is applied to it.                              *)
(***************************************************************************)
RedactInit ==
    /\ StoreIdle /\ ToggleIdle /\ ScanIdle /\ CatalogIdle /\ UsageIdle /\ McpScanIdle
    /\ redaction \in { [fn |-> "none", config |-> c, out |-> None] : c \in Configs }

RedactNext ==
    \/ RedactExtraConfig
    \/ RedactConfigExtra
    \/ RedactEnvVars
    \/ CodexRedactEnvVars

SpecRedact == RedactInit /\ [][RedactNext]_vars

\* The secret tokens a key name is tested against, without regard to case.
SecretTokens ==
    { <<"t", "o", "k", "e", "n">>, <<"s", "e", "c", "r", "e", "t">>,
      <<"p", "a", "s", "s", "w", "o", "r", "d">>, <<"a", "p", "i", "-", "k", "e", "y">>,
      <<"b", "e", "a", "r", "e", "r">>,
      <<"a", "u", "t", "h", "o", "r", "i", "z", "a", "t", "i", "o", "n">>,
      <<"c", "o", "o", "k", "i", "e">> }

IsSecretKey(key) == \E pat \in SecretTokens : Contains(lower(key), pat)

\* Some secret key of the input, at any depth, has its original value in the output.
RECURSIVE Leaks(_, _)
Leaks(in, out) ==
    /\ in.t = out.t
    /\ \/ /\ in.t = "dict"
          /\ \E i \in DOMAIN in.v :
                 \/ IsSecretKey(in.v[i][1]) /\ out.v[i][2] = in.v[i][2]
                 \/ Leaks(in.v[i][2], out.v[i][2])
       \/ /\ in.t = "list"
          /\ \E i \in DOMAIN in.v : Leaks(in.v[i], out.v[i])

(***************************************************************************)
(* C15: for every key whose name contains a secret token (token, secret,   *)
(* password, api-key, bearer, authorization, cookie; any case) and every   *)
(* value of any type, at every nesting depth, the redaction output for     *)
(* that key is not the original value.                                     *)
(***************************************************************************)
C15_SecretKeyNeverOriginal ==
    redaction.fn \in {"_redact_extra_config", "_redact_env_vars", "_redact_config_extra"}
        => ~Leaks(redaction.config, redaction.out)

RECURSIVE HasPlaceholder(_)
HasPlaceholder(value) ==
    \/ value.t = "str" /\ is_placeholder(value.v)
    \/ value.t = "list" /\ \E i \in DOMAIN value.v : HasPlaceholder(value.v[i])
    \/ value.t = "dict" /\ \E i \in DOMAIN value.v : HasPlaceholder(value.v[i][2])

\* Every placeholder of the input, at any depth, is in the output as it was.
RECURSIVE PlaceholdersKept(_, _)
PlaceholdersKept(in, out) ==
    \/ in.t = "str" /\ out = in
    \/ ~HasPlaceholder(in)
    \/ /\ in.t = "list" /\ out.t = "list"
       /\ \A i \in DOMAIN in.v : PlaceholdersKept(in.v[i], out.v[i])
    \/ /\ in.t = "dict" /\ out.t = "dict"
       /\ \A i \in DOMAIN in.v : PlaceholdersKept(in.v[i][2], out.v[i][2])

(***************************************************************************)
(* C16: every value that is a placeholder reference (the ${NAME} form),    *)
(* under any key and at any nesting depth, is returned unchanged by the    *)
(* redaction.                                                              *)
(***************************************************************************)
C16_PlaceholderUnchanged ==
    redaction.fn # "none" => PlaceholdersKept(redaction.config, redaction.out)

\* The last call toggled a file-backed entry the engine accepts, its artifact
\* was at the recorded path and the same name was in the other location too.
DestinationExisted ==
    /\ LastIsToggle
    /\ FileBacked(entry)
    /\ entry.status \in {"active", "disabled"}
    /\ ~IsPluginCommand(entry)
    /\ Exists(toggle_hist.pre.fs, entry.install_path)
    /\ Exists(toggle_hist.pre.fs, MovedPath(entry.install_path))

(***************************************************************************)
(* C20: toggling a file-backed entry whose destination path (the same name *)
(* in the other location) already exists raises ToggleError and leaves     *)
(* both the source artifact and the existing destination unchanged.        *)
(***************************************************************************)
C20_ExistingDestinationRejected ==
    DestinationExisted
        => /\ LastCall.outcome = "ToggleError"
           /\ \A p \in {entry.install_path, MovedPath(entry.install_path)} :
                  \A f \in toggle_hist.pre.fs : f[1] = p => f \in disk.fs
           /\ disk = toggle_hist.pre

\* The artifact lay in the location its status names, so only the destination
\* stood in the way.
C20_Witness ==
    /\ DestinationExisted
    /\ entry.status = "active"
    /\ entry.install_path = ActivePath(entry.type)
    /\ LastCall.outcome = "ToggleError"

\* The members of a collection other than the toggled name.
OthersOf(coll, name) == { kv \in coll.items : kv[1] # name }

\* A scope after the call holds the members it held, the toggled name aside.
ScopeFramed(before, after, name) ==
    \A c \in {"mcpServers", "mcpServersDisabled"} :
        OthersOf(after[c], name) = OthersOf(before[c], name)

\* A JSON document after the call differs from the one before at most in the
\* collection the toggled name is a member of.
JsonFramed(before, after, name) ==
    /\ after.state = before.state
    /\ after.layout = before.layout
    /\ Len(after.projects) = Len(before.projects)
    /\ ScopeFramed(before.top, after.top, name)
    /\ \A i \in DOMAIN before.projects :
           ScopeFramed(before.projects[i], after.projects[i], name)

\* config.toml after the call differs from the one before at most in the table
\* name of one header line.
TomlFramed(before, after) ==
    /\ after.state = before.state
    /\ after.newline = before.newline
    /\ Len(after.lines) = Len(before.lines)
    /\ \A i \in DOMAIN before.lines : after.lines[i].key = before.lines[i].key
    /\ Cardinality({ i \in DOMAIN before.lines : after.lines[i] # before.lines[i] }) <= 1

(***************************************************************************)
(* C19: a successful toggle of a config-backed entry changes only the      *)
(* membership of that one entry between the active and the disabled        *)
(* collection; every other byte of the document (other entries, other      *)
(* keys, key order, whitespace, comments, formatting) is as before.        *)
(***************************************************************************)
C19_OnlyMembershipChanges ==
    (LastIsToggle /\ ConfigBacked(entry) /\ LastCall.outcome = "ok")
        => /\ JsonFramed(toggle_hist.pre.claude_json, disk.claude_json, entry.name)
           /\ JsonFramed(toggle_hist.pre.mcp_json, disk.mcp_json, entry.name)
           /\ TomlFramed(toggle_hist.pre.config_toml, disk.config_toml)
           /\ disk.fs = toggle_hist.pre.fs

\* The last call toggled a file-backed entry the engine accepts whose artifact
\* lay in the location its recorded status does not name.
StatusMismatched ==
    /\ LastIsToggle
    /\ FileBacked(entry)
    /\ entry.status \in {"active", "disabled"}
    /\ ~IsPluginCommand(entry)
    /\ Exists(toggle_hist.pre.fs, entry.install_path)
    /\ (entry.status = "active") = (PathName(Parent(entry.install_path)) = ".disabled")

(***************************************************************************)
(* C21: toggling a file-backed entry whose artifact's parent directory     *)
(* does not match its recorded status (active but under .disabled, or      *)
(* disabled but outside .disabled) raises ToggleError and moves nothing.   *)
(***************************************************************************)
C21_MismatchedStatusRejected ==
    StatusMismatched => (LastCall.outcome = "ToggleError" /\ disk = toggle_hist.pre)

\* The destination was free, so only the mismatch stood in the way.
C21_Witness ==
    /\ StatusMismatched
    /\ ~Exists(toggle_hist.pre.fs, MovedPath(entry.install_path))
    /\ LastCall.outcome = "ToggleError"

\* The last two calls were toggles of the same, not refreshed record and the
\* first of them succeeded.
ToggledAgainStale ==
    LET c == toggle_hist.calls IN
    /\ Len(c) >= 2
    /\ c[Len(c) - 1].op = "toggle" /\ c[Len(c) - 1].outcome = "ok"
    /\ c[Len(c)].op = "toggle"

(***************************************************************************)
(* C29: a second toggle with the same, not refreshed entry record (the     *)
(* status and location it had before the first successful toggle) raises   *)
(* ToggleError and changes nothing: a stale record never flips the         *)
(* artifact back and never moves it a second time.                         *)
(***************************************************************************)
C29_StaleRecordRejected ==
    ToggledAgainStale => (LastCall.outcome = "ToggleError" /\ disk = toggle_hist.pre)

C29_Witness == ToggledAgainStale /\ LastCall.outcome = "ToggleError"

\* The last call toggled a component with success and loaded the new scan
\* into the store.
ToggledAndReloaded == LastCatIs("toggle_enabled", "ok")

(***************************************************************************)
(* C30: after a successful toggle of an entry followed by a re-scan and    *)
(* upsert of the same platform, the store holds exactly one entry for      *)
(* that identity and its status equals the new_status the toggle returned. *)
(***************************************************************************)
C30_ToggleThenRescanAgree ==
    ToggledAndReloaded =>
        LET t == db_hist.last_arg[1]
            rows == { r \in dbfile.components : Key(r) = Key(t.component) }
        IN  /\ Cardinality(rows) = 1
            /\ \A r \in rows : r.status = t.new_status

\* The records of the scan the last call stored.
LastScanned ==
    IF LastCatIs("scan_upsert", "ok")
    THEN { db_hist.last_arg[i] : i \in 1..Len(db_hist.last_arg) }
    ELSE {}

(***************************************************************************)
(* C27: every record a scanner extracts from the primary location has      *)
(* status active and every record it extracts from the .disabled sibling   *)
(* has status disabled; status error appears only when the extraction of   *)
(* that artifact failed (the record then carries the error message).       *)
(***************************************************************************)
C27_StatusFromLocation ==
    \A c \in LastScanned :
        IF c.error_message # NULL THEN c.status = "error"
        ELSE c.status = (IF c.install_path = "D" THEN "disabled" ELSE "active")

\* Record i of the scan the last call stored is one of several records of
\* its identity in that scan.
RepeatedInScan(i) ==
    /\ LastCatIs("update_components", "ok")
    /\ i \in 1..Len(db_hist.last_arg)
    /\ \E j \in 1..Len(db_hist.last_arg) :
           j # i /\ Key(db_hist.last_arg[j]) = Key(db_hist.last_arg[i])

(***************************************************************************)
(* C28: when one scan result contains several records with the same        *)
(* (platform, name, type), a single upsert call stores one entry for that  *)
(* identity, and its attributes are those of the last such record in       *)
(* processing order.                                                       *)
(***************************************************************************)
C28_LastDuplicateWins ==
    \A i \in 1..MaxUpserted :
        RepeatedInScan(i) =>
            LET first == db_hist.last_arg[i]
                at == { j \in 1..Len(db_hist.last_arg) :
                          Key(db_hist.last_arg[j]) = Key(first) }
                c == db_hist.last_arg[CHOOSE j \in at : \A h \in at : h <= j]
                rows == { r \in dbfile.components : Key(r) = Key(first) }
            IN  /\ Cardinality(rows) = 1
                /\ \A r \in rows :
                       /\ r.origin = c.origin /\ r.status = c.status
                       /\ r.install_path = c.install_path
                       /\ r.version = Attr(c.attrs, "version", NULL)
                       /\ r.metadata_json = json_dumps(metadata_dict(c))

\* Two records of one identity that differ, the identity new to the store.
C28_Witness ==
    /\ RepeatedInScan(1)
    /\ Len(db_hist.last_arg) = 2
    /\ db_hist.last_arg[1] # db_hist.last_arg[2]
    /\ db_hist.pre_view.components = {}

\* Row q is row r with the attributes r had.
SameEntry(r, q) ==
    /\ q.id = r.id /\ q.name = r.name /\ q.type = r.type
    /\ q.origin = r.origin /\ q.status = r.status /\ q.version = r.version
    /\ q.install_path = r.install_path /\ q.metadata_json = r.metadata_json

\* The scan the last call upserted has a record of the identity of row q.
InLastScan(q) ==
    /\ LastCat.op = "update_components"
    /\ \E i \in 1..Len(db_hist.last_arg) : Key(db_hist.last_arg[i]) = Key(q)

\* What the store held before the last call and what it holds now: the
\* connection's view for a call on an open connection, the file for open
\* and close.
StoreBefore == IF LastCat.op \in {"open", "close"} THEN db_hist.pre_file ELSE db_hist.pre_view

StoreNow == IF LastCat.op \in {"open", "close"} THEN dbfile ELSE dbview

(***************************************************************************)
(* C23: no store operation (upsert, track, open with migration) removes an *)
(* entry or changes or removes an installation event: an entry that is     *)
(* absent from the scan stays in the store with its last attributes, and   *)
(* the installation-event log only grows.                                  *)
(***************************************************************************)
C23_EntriesAndEventsKept ==
    CatCalls # <<>> =>
        /\ \A r \in StoreBefore.components :
               \E q \in StoreNow.components :
                   /\ q.id = r.id
                   /\ SameEntry(r, q) \/ InLastScan(q)
        /\ Len(StoreNow.events) >= Len(StoreBefore.events)
        /\ SubSeq(StoreNow.events, 1, Len(StoreBefore.events)) = StoreBefore.events

\* An upsert whose scan lacks an identity the store holds with an event.
C23_Witness ==
    /\ LastCatIs("update_components", "ok")
    /\ db_hist.last_arg # <<>>
    /\ db_hist.pre_view.events # <<>>
    /\ \E r \in db_hist.pre_view.components :
           \A i \in 1..Len(db_hist.last_arg) : Key(db_hist.last_arg[i]) # Key(r)

(***************************************************************************)
(* Usage: specification.  The store holds the component with some          *)
(* invocations, or does not hold it, and its usage is asked for.           *)
(***************************************************************************)
UsageInit ==
    /\ StoreIdle /\ ToggleIdle /\ ScanIdle /\ CatalogIdle /\ RedactIdle /\ McpScanIdle
    /\ usage \in { [found |-> f, table |-> tb, called |-> FALSE, result |-> <<>>] :
                     f \in BOOLEAN, tb \in InvocationTables }
    /\ usage.found \/ usage.table = NoInvocations

UsageNext == GetComponentUsage

SpecUsage == UsageInit /\ [][UsageNext]_vars

(***************************************************************************)
(* C22: the usage of an identity that has no entry is returned without     *)
(* raising, with found = false and total = 0, and has the same fields as   *)
(* the result for a known identity (sessions, success_rate, avg_duration,  *)
(* p95_duration, last_invoked, recent_errors).                             *)
(***************************************************************************)
C22_NotFoundSameShape ==
    (usage.called /\ ~usage.found) =>
        /\ usage.result.found = FALSE
        /\ usage.result.total_invocations = 0
        /\ DOMAIN usage.result = DOMAIN get_component_usage(TRUE, usage.table)

\* int(round(num / den)) with every half going up.
RoundHalfUp(num, den) == (2 * num + den) \div (2 * den)

(***************************************************************************)
(* C26: the p95 duration returned is the element at index                  *)
(* round(0.95 * (n - 1)), clamped to [0, n - 1], of the ascending list of  *)
(* all n durations recorded for the entry in the window: every recorded    *)
(* duration counts, and the rounding is the same for every n.              *)
(***************************************************************************)
C26_P95OfAllDurations ==
    LET all == ordered_durations(usage.table)
        n == Len(all)
        idx == RoundHalfUp(95 * (n - 1), 100)
        clamped == IF idx < 0 THEN 0 ELSE IF idx > n - 1 THEN n - 1 ELSE idx
    IN  (usage.called /\ usage.found /\ n >= 1)
            => usage.result.p95_duration_ms = <<all[clamped + 1]>>

\* The error string _safe_scan of the task's platform appends.
ErrorMsgOf(task) ==
    IF task[1] = "claude" THEN ClaudeErrorMsg(task[2]) ELSE CodexErrorMsg(task[2])

TimesReported(seq, x) == Cardinality({ i \in 1..Len(seq) : seq[i] = x })

\* The result of the scan_all(parallel=True) call.
ParallelResult == results[2]

(***************************************************************************)
(* C25: in parallel mode, when k of the scanner tasks raise, the final     *)
(* error list holds exactly k error strings, one per failed scanner,       *)
(* whatever the order in which the tasks finish: no error is lost or       *)
(* duplicated, and every task that did not raise has returned its          *)
(* components (no sibling is cancelled).                                   *)
(***************************************************************************)
C25_OneErrorPerFailedTask ==
    (Len(results) >= 2 /\ request.missing = {}) =>
        /\ Len(ParallelResult.errors) = Cardinality(request.fails)
        /\ \A task \in request.fails :
               TimesReported(ParallelResult.errors, ErrorMsgOf(task)) = 1
        /\ \A other \in RunTasks(request) \ request.fails :
               OfPlatform(ParallelResult.components[other[2]], other[1]) = Found(other)

\* Two scanners of one platform raised in the parallel scan, so both
\* appended to the same list.
C25_Witness ==
    /\ Len(results) >= 2
    /\ request.missing = {}
    /\ \E pf \in {"claude", "codex"} :
           Cardinality({ task \in request.fails : task[1] = pf }) = MaxFailures

(***************************************************************************)
(* Codex MCP scanner: specification.  config.toml is absent, unreadable,   *)
(* malformed or holds some servers, and the scanner is run on it.          *)
(***************************************************************************)
McpScanInit ==
    /\ StoreIdle /\ ToggleIdle /\ ScanIdle /\ CatalogIdle /\ RedactIdle /\ UsageIdle
    /\ mcp_scan \in { [file |-> f, called |-> FALSE, outcome |-> "none", records |-> <<>>] :
                        f \in ConfigTomls }

McpScanNext == CodexMcpScan

SpecMcpScan == McpScanInit /\ [][McpScanNext]_vars

\* The servers of the document that are tables, each with the status of
\* its section.
ServersInDocument ==
    IF mcp_scan.file.state # "parsed"
       \/ mcp_scan.file.mcp_servers.kind = "scalar"
       \/ mcp_scan.file.mcp_servers_disabled.kind = "scalar"
    THEN {}
    ELSE { <<nm, "active">> : nm \in { x \in DOMAIN mcp_scan.file.mcp_servers.servers :
                                         mcp_scan.file.mcp_servers.servers[x] = "table" } }
         \cup
         { <<nm, "disabled">> : nm \in { x \in DOMAIN mcp_scan.file.mcp_servers_disabled.servers :
                                           mcp_scan.file.mcp_servers_disabled.servers[x] = "table" } }

(***************************************************************************)
(* C24: a scanner's scan() does not raise, whatever its source location    *)
(* contains (an unreadable or malformed document included), and the        *)
(* artifacts that can be read are returned, a failed one as a record with  *)
(* status error and error_message set.                                     *)
(***************************************************************************)
C24_ScanNeverRaises ==
    mcp_scan.called =>
        /\ mcp_scan.outcome = "returned"
        /\ \A s \in ServersInDocument :
               \E i \in 1..Len(mcp_scan.records) :
                   /\ mcp_scan.records[i].name = s[1]
                   /\ \/ mcp_scan.records[i].status = s[2]
                      \/ /\ mcp_scan.records[i].status = "error"
                         /\ mcp_scan.records[i].error_message # NULL

====
